---- MODULE Spec2Model ----
(***************************************************************************)
(* Model of the matching engine of olyamironova/exchange-engine.           *)
(*                                                                         *)
(* Spec: core.Engine (src/internal/core/engine.go), built with             *)
(* NewEngine(nil, nil): every repository and cache call is guarded by      *)
(* `if e.repo != nil` / `if e.cache != nil` and is skipped.  All methods   *)
(* run under e.mu, so each call is one atomic action.                      *)
(*                                                                         *)
(* Prices and quantities are float64 in the source; the model draws them   *)
(* from small integer ranges, on which float64 arithmetic is exact.        *)
(* uuid.New() is modelled by the next unused index, time.Now() by a        *)
(* strictly increasing clock.  Trade.ID and Trade.Timestamp are not kept.  *)
(*                                                                         *)
(* The other specifications put the same engine behind its transports      *)
(* (SpecAPI), add snapshots (SpecSnap), a MemoryRepo (SpecRepo), a cache   *)
(* and readers (SpecCache), a PgRepo and a cache that can fail (SpecStore, *)
(* SpecLoad) and several calling goroutines (SpecLock); SpecTx is withTx.  *)
(* SpecRace interleaves the engine's locked methods with the unlocked      *)
(* LoadOpenOrdersFromRepo and DeepCopy, SpecQty lets ModifyOrder take any  *)
(* quantity, SpecBook is core.OrderBook, SpecMem is MemoryRepo and its     *)
(* noTx, SpecAlias keeps the book's slices over shared backing arrays,     *)
(* SpecPubSub is OrderbookPubSub with its streams, and SpecID is           *)
(* SubmitOrder with a caller-supplied order ID.                            *)
(***************************************************************************)
EXTENDS Integers, Sequences, FiniteSets, TLC

\* ------------------------------------------------------------------ bounds
MaxOrders == 3
MaxPrice == 2
MaxQty == 2

\* The symbols orders are submitted on, the clients that submit them, and the
\* clients that call ModifyOrder and CancelOrder.
Symbols == {"X"}
Owners == {"c1"}
Clients == {"c1", "c2"}
Prices == 1..MaxPrice
Qtys == 1..MaxQty

\* ------------------------------------------------------ domain constants
Buy == "BUY"
Sell == "SELL"
Limit == "LIMIT"
Market == "MARKET"
Open == "OPEN"
Filled == "FILLED"
Cancelled == "CANCELLED"
\* The status the specification names for 0 < Remaining < Quantity.
PartiallyFilled == "PARTIALLY FILLED"

Sides == {Buy, Sell}
Types == {Limit, Market}

ErrNone == "nil"
ErrNotFound == "order not found"
ErrModifyNonOpen == "cannot modify non-open order"
ErrCancelNonOpen == "cannot cancel non-open order"

VARIABLES
    orders,     \* e.orders: order ID -> Order (IDs are 1..Len(orders))
    trades,     \* e.trades: order ID -> sequence of Trade
    orderbook,  \* e.orderbook: symbol -> [Bids, Asks], value copies of orders
    clock,      \* last reading of time.Now()
    last,       \* the last call that changed the engine
    submittedID,    \* HTTPServer.submittedID: the order_id values already seen
    response,       \* the response the last transport call sent
    firstResponse,  \* history: order_id -> the response to its first accepted submit
    snapshots,      \* e.snapshots: snapshot ID -> book copy (IDs are 1..Len(snapshots))
    captured,       \* history: snapshot ID -> the symbol asked for and the book copied
    fresh,          \* e.orderbook of a second engine started over the same repository
    cache,          \* the port.Cache behind e.cache: symbol -> book
    held,           \* what a caller holds from its last GetOrder / GetOrderbook
    store,          \* the orders table behind e.repo: order ID -> row
    storeTrades,    \* the trades table behind e.repo
    calls,          \* the repository and cache calls of the last engine call, with their errors
    returned,       \* what the last engine call returned
    pc,             \* goroutine -> the call it is making and how far it has got
    mu,             \* e.mu: the goroutine holding it, or Unlocked
    txAt,           \* the statement withTx is about to run
    committed,      \* withTx's local variable
    txCalls,        \* the calls withTx has made in this run, with their errors
    txErr,          \* the error of fn or Commit; at the end, what withTx returns
    txRuns,         \* the number of runs of withTx started
    book,           \* a core.OrderBook: [Buy, Sell], the resting orders
    produced,       \* history: every trade AddOrder has returned, in order
    added,          \* the number of AddOrder calls made
    memTx,          \* the port.Tx of MemoryRepo.BeginTx; history: the repository then
    arrays,         \* the backing arrays of the slices: array -> its cells, one per unit of capacity
    slices,         \* the slice headers of the book of X and of its snapshots
    subs,           \* the subs maps of the two pub/subs: pub/sub -> symbol -> set of channels
    chans,          \* the channels made by Subscribe: [cap, len, closed]
    published       \* the number of Publish goroutines started

\* The engine's own state, and the state the transports add to it.
engineVars == <<orders, trades, orderbook, clock, last>>
apiVars == <<submittedID, response, firstResponse>>
snapVars == <<snapshots, captured>>
storeVars == <<fresh, cache, held>>
repoVars == <<store, storeTrades, calls, returned>>
concVars == <<pc, mu>>
txVars == <<txAt, committed, txCalls, txErr, txRuns>>
bookVars == <<book, produced, added>>
memVars == <<memTx>>
sliceVars == <<arrays, slices>>
chanVars == <<subs, chans, published>>
\* The state of the components that stand next to the engine.
otherVars == <<bookVars, memVars, sliceVars, chanVars>>
\* The state that the engine called alone from one goroutine does not touch.
restVars == <<repoVars, concVars, txVars, otherVars>>

vars == <<orders, trades, orderbook, clock, last, submittedID, response, firstResponse,
          snapshots, captured, fresh, cache, held, store, storeTrades, calls, returned,
          pc, mu, txAt, committed, txCalls, txErr, txRuns,
          book, produced, added,
          memTx,
          arrays, slices,
          subs, chans, published>>

\* ----------------------------------------------------------------- helpers
min(a, b) == IF a < b THEN a ELSE b

OrderIDs == 1..Len(orders)

\* All orderings of a finite set, as sequences without repetition.
Perms(S) ==
    {p \in [1..Cardinality(S) -> S] : \A i, j \in 1..Cardinality(S) : i # j => p[i] # p[j]}

\* ------------------------------------------------- core.Engine: the book
EmptyBook == [Bids |-> <<>>, Asks |-> <<>>]

\* getOrCreateOrderbook: the book of a symbol, created empty on first use.
getOrCreateOrderbook(books, symbol) ==
    IF symbol \in DOMAIN books THEN books
    ELSE [s \in DOMAIN books \cup {symbol} |-> IF s = symbol THEN EmptyBook ELSE books[s]]

\* The comparison functions sortOrders hands to sort.SliceStable.
BidLess(a, b) ==
    IF a.Price # b.Price THEN a.Price > b.Price ELSE a.CreatedAt < b.CreatedAt

AskLess(a, b) ==
    IF a.Price # b.Price THEN a.Price < b.Price ELSE a.CreatedAt < b.CreatedAt

SideLess(side, a, b) == IF side = Buy THEN BidLess(a, b) ELSE AskLess(a, b)

\* One insertion of a stable sort: x goes in front of the first element it is
\* less than, behind every element it is not less than.
InsertStable(side, s, x) ==
    LET after == {i \in 1..Len(s) : SideLess(side, x, s[i])}
        k == IF after = {} THEN Len(s) + 1
             ELSE CHOOSE i \in after : \A j \in after : i <= j
    IN SubSeq(s, 1, k - 1) \o <<x>> \o SubSeq(s, k, Len(s))

\* sort.SliceStable on one side of the book.
RECURSIVE SliceStable(_, _)
SliceStable(side, s) ==
    IF s = <<>> THEN <<>>
    ELSE InsertStable(side, SliceStable(side, SubSeq(s, 1, Len(s) - 1)), s[Len(s)])

sortOrders(ob) ==
    [Bids |-> SliceStable(Buy, ob.Bids), Asks |-> SliceStable(Sell, ob.Asks)]

\* removeOrder: drops the first entry with the given ID, if any.
removeOrder(s, orderID) ==
    LET hits == {i \in 1..Len(s) : s[i].ID = orderID}
    IN IF hits = {} THEN s
       ELSE LET i == CHOOSE h \in hits : \A j \in hits : h <= j
            IN SubSeq(s, 1, i - 1) \o SubSeq(s, i + 1, Len(s))

\* Appends a value copy of o to its side of the book of its symbol.
appendToBook(books, o) ==
    [books EXCEPT ![o.Symbol] =
        IF o.Side = Buy THEN [@ EXCEPT !.Bids = Append(@, o)]
        ELSE [@ EXCEPT !.Asks = Append(@, o)]]

removeFromBook(books, o) ==
    [books EXCEPT ![o.Symbol] =
        IF o.Side = Buy THEN [@ EXCEPT !.Bids = removeOrder(@, o.ID)]
        ELSE [@ EXCEPT !.Asks = removeOrder(@, o.ID)]]

sortBook(books, symbol) == [books EXCEPT ![symbol] = sortOrders(@)]

\* --------------------------------------------- core.Engine: the matching
\* The conditions of the two `if` statements of the matching loop.
\* A buy that ignores its limit.
BuyCrossesAnyPrice(o, other) == o.Side = Buy /\ other.Side = Sell

BuyCrosses(o, other) ==
    o.Side = Buy /\ other.Side = Sell /\ (o.Type = Market \/ o.Price >= other.Price)

SellCrosses(o, other) ==
    o.Side = Sell /\ other.Side = Buy /\ (o.Type = Market \/ other.Price >= o.Price)

\* The orders the loop skips with `continue` before looking at sides and prices.
Skipped(o, other) ==
    other.Symbol # o.Symbol \/ other.Status # Open \/ other.ID = o.ID

\* A trade priced at the aggressor's price instead of the resting order's.
TradePriceOfAggressor(o, other) == o.Price

TradePrice(o, other) == other.Price

NewTrade(o, other, q) ==
    [BuyOrder  |-> IF o.Side = Buy THEN o.ID ELSE other.ID,
     SellOrder |-> IF o.Side = Buy THEN other.ID ELSE o.ID,
     Price     |-> TradePrice(o, other),
     Quantity  |-> q]

\* A fill that marks an order FILLED only below zero.
StatusAfterFillBelowZero(remaining, status) == IF remaining < 0 THEN Filled ELSE status

StatusAfterFill(remaining, status) == IF remaining <= 0 THEN Filled ELSE status

\* One iteration of `for _, other := range e.orders` for the aggressor oid.
\* st = [orders, trades, executed, stop]; stop is the `break`.
MatchStep(st, oid, otherID) ==
    LET o == st.orders[oid]
        other == st.orders[otherID]
    IN IF Skipped(o, other) THEN st
       ELSE IF ~(BuyCrosses(o, other) \/ SellCrosses(o, other)) THEN st
       ELSE LET q == min(o.Remaining, other.Remaining)
            IN IF q <= 0 THEN st
               ELSE LET tr == NewTrade(o, other, q)
                        oRem == o.Remaining - q
                        otherRem == other.Remaining - q
                        filled ==
                            [st.orders EXCEPT
                                ![oid].Remaining = oRem,
                                ![oid].Status = StatusAfterFill(oRem, @),
                                ![otherID].Remaining = otherRem,
                                ![otherID].Status = StatusAfterFill(otherRem, @)]
                    IN IF oRem <= 0
                       THEN [orders |-> filled, trades |-> st.trades,
                             executed |-> Append(st.executed, tr), stop |-> TRUE]
                       ELSE [orders |-> filled,
                             trades |-> [st.trades EXCEPT ![otherID] = Append(@, tr)],
                             executed |-> Append(st.executed, tr), stop |-> FALSE]

\* The whole loop, visiting e.orders in the order iter (Go leaves the
\* iteration order of a map unspecified).
RECURSIVE MatchLoop(_, _, _, _)
MatchLoop(st, oid, iter, i) ==
    IF i > Len(iter) \/ st.stop THEN st
    ELSE MatchLoop(MatchStep(st, oid, iter[i]), oid, iter, i + 1)

\* ------------------------------------------------------------------ state
\* last: the last call that changed the engine, [op, id]. A rejected call
\* returns (false, err) and changes nothing, so it leaves no trace here; what
\* it returns is given by ModifyOrderErr and CancelOrderErr.
NoCall == [op |-> "none", id |-> 0]

\* The caller holds nothing yet.
NoValue == [kind |-> "none"]

\* No transport call has been answered yet.
NoResponse == [status |-> 0]

\* No engine call has returned yet. n counts the calls made.
NoReturn == [op |-> "none", n |-> 0]

\* A nil slice, and an engine with no book and no snapshot: a slice header is
\* the backing array (0: none) and the length.
NilSlice == [arr |-> 0, len |-> 0]
NoSlices == [live |-> [Bids |-> NilSlice, Asks |-> NilSlice], snap |-> <<>>]

\* NewOrderbookPubSub() and NewTradePubSub(): no subscriber.
PubSubs == {"orderbook", "trade"}
NoSubs == [p \in PubSubs |-> [s \in {} |-> {}]]

\* No transaction has been begun on the MemoryRepo.
NoTx == [open |-> FALSE, n |-> 0, w |-> 0, ended |-> "", orders |-> <<>>, trades |-> <<>>]

\* NewOrderBook(symbol): an OrderBook with nothing resting.
NewOrderBook == [Buy |-> <<>>, Sell |-> <<>>]

\* The goroutines that call the engine, and what a goroutine does between calls.
Threads == {"g1", "g2"}
Idle == [at |-> "idle"]
Unlocked == "unlocked"

Init ==
    /\ orders = <<>>
    /\ trades = <<>>
    /\ orderbook = [s \in {} |-> EmptyBook]
    /\ clock = 0
    /\ last = NoCall
    /\ submittedID = {}
    /\ response = NoResponse
    /\ firstResponse = [i \in {} |-> NoResponse]
    /\ snapshots = <<>>
    /\ captured = <<>>
    /\ fresh = [s \in {} |-> EmptyBook]
    /\ cache = [s \in {} |-> EmptyBook]
    /\ held = NoValue
    /\ store = <<>>
    /\ storeTrades = <<>>
    /\ calls = <<>>
    /\ returned = NoReturn
    /\ pc = [t \in Threads |-> Idle]
    /\ mu = Unlocked
    /\ txAt = "idle"
    /\ committed = FALSE
    /\ txCalls = <<>>
    /\ txErr = ErrNone
    /\ txRuns = 0
    /\ book = NewOrderBook
    /\ produced = <<>>
    /\ added = 0
    /\ memTx = NoTx
    /\ arrays = <<>>
    /\ slices = NoSlices
    /\ subs = NoSubs
    /\ chans = <<>>
    /\ published = 0

\* ---------------------------------------------------------------- actions
\* Engine.SubmitOrder with o.ID = "" (the engine draws a fresh ID).  iter is
\* the order in which `range e.orders` visits the orders.
SubmitOrder(client, symbol, side, type, price, qty, iter) ==
    LET id == Len(orders) + 1
        now == clock + 1
        o == [ID |-> id, ClientID |-> client, Symbol |-> symbol, Side |-> side,
              Type |-> type, Price |-> price, Quantity |-> qty,
              Remaining |-> qty, Status |-> Open, CreatedAt |-> now]
        ob == sortBook(appendToBook(getOrCreateOrderbook(orderbook, symbol), o), symbol)
        st == MatchLoop([orders |-> Append(orders, o), trades |-> Append(trades, <<>>),
                         executed |-> <<>>, stop |-> FALSE], id, iter, 1)
    IN /\ orders' = st.orders
       /\ trades' = [st.trades EXCEPT ![id] = @ \o st.executed]
       /\ orderbook' = ob
       /\ clock' = now
       /\ last' = [op |-> "SubmitOrder", id |-> id]

\* The error ModifyOrder returns for these arguments in the current state
\* (ErrNone: it returns true, nil).
ModifyOrderErr(orderID, clientID) ==
    IF orderID \notin OrderIDs \/ orders[orderID].ClientID # clientID THEN ErrNotFound
    ELSE IF orders[orderID].Status # Open THEN ErrModifyNonOpen
    ELSE ErrNone

\* A modify that forgets to reset Remaining.
ModifiedOrderKeepsRemaining(o, newPrice, newQty) ==
    [o EXCEPT !.Price = newPrice, !.Quantity = newQty]

\* The three assignments ModifyOrder makes to the order.
ModifiedOrder(o, newPrice, newQty) ==
    [o EXCEPT !.Price = newPrice, !.Quantity = newQty, !.Remaining = newQty]

ModifyOrder(orderID, clientID, newPrice, newQty) ==
    IF ModifyOrderErr(orderID, clientID) # ErrNone THEN UNCHANGED engineVars
    ELSE LET o == ModifiedOrder(orders[orderID], newPrice, newQty)
             removed == removeFromBook(getOrCreateOrderbook(orderbook, o.Symbol), o)
         IN /\ orders' = [orders EXCEPT ![orderID] = o]
            /\ orderbook' = sortBook(appendToBook(removed, o), o.Symbol)
            /\ last' = [op |-> "ModifyOrder", id |-> orderID]
            /\ UNCHANGED <<trades, clock>>

\* A cancel that does not check who owns the order.
CancelOrderErrIgnoresOwner(orderID, clientID) ==
    IF orderID \notin OrderIDs THEN ErrNotFound
    ELSE IF orders[orderID].Status # Open THEN ErrCancelNonOpen
    ELSE ErrNone

\* A cancel that does not look at the order's status.
CancelOrderErrAnyStatus(orderID, clientID) ==
    IF orderID \notin OrderIDs \/ orders[orderID].ClientID # clientID THEN ErrNotFound
    ELSE ErrNone

\* The error CancelOrder returns for these arguments in the current state.
CancelOrderErr(orderID, clientID) ==
    IF orderID \notin OrderIDs \/ orders[orderID].ClientID # clientID THEN ErrNotFound
    ELSE IF orders[orderID].Status # Open THEN ErrCancelNonOpen
    ELSE ErrNone

CancelOrder(orderID, clientID) ==
    IF CancelOrderErr(orderID, clientID) # ErrNone THEN UNCHANGED engineVars
    ELSE LET o == [orders[orderID] EXCEPT !.Status = Cancelled, !.Remaining = 0]
         IN /\ orders' = [orders EXCEPT ![orderID] = o]
            /\ orderbook' = removeFromBook(getOrCreateOrderbook(orderbook, o.Symbol), o)
            /\ last' = [op |-> "CancelOrder", id |-> orderID]
            /\ UNCHANGED <<trades, clock>>

\* The prices a caller puts on an order: a LIMIT price is positive; a MARKET
\* order carries no price and its Price field is left at the zero value.
PricesOf(type) == IF type = Limit THEN Prices ELSE {0}

Submit ==
    /\ Len(orders) < MaxOrders
    /\ \E client \in Owners, symbol \in Symbols, side \in Sides, type \in Types :
         \E price \in PricesOf(type), qty \in Qtys :
           \E iter \in Perms(1..(Len(orders) + 1)) :
             SubmitOrder(client, symbol, side, type, price, qty, iter) /\ UNCHANGED <<apiVars, snapVars, storeVars, restVars>>

Modify ==
    \E orderID \in 1..MaxOrders, clientID \in Clients, newPrice \in Prices, newQty \in Qtys :
        ModifyOrder(orderID, clientID, newPrice, newQty) /\ UNCHANGED <<apiVars, snapVars, storeVars, restVars>>

Cancel ==
    \E orderID \in 1..MaxOrders, clientID \in Clients :
        CancelOrder(orderID, clientID) /\ UNCHANGED <<apiVars, snapVars, storeVars, restVars>>

Next == Submit \/ Modify \/ Cancel

Spec == Init /\ [][Next]_vars

\* ------------------------------------------- the transports: HTTP and gRPC
\* SpecAPI: the two handlers that hand orders to Engine.SubmitOrder
\* (src/internal/api/grpc/grpc_server.go), with requests as they arrive.
MaxAPIOrders == 2

\* What a request can carry: any string as side and type, any number as price
\* and quantity, an order_id or none ("").
RawSides == Sides \cup {"HOLD"}
RawTypes == Types \cup {"STOP"}
RawPrices == 0..MaxPrice
RawQtys == (-1)..MaxQty
ReqIDs == {"", "a", "b"}

ErrBinding == "binding: required field missing"
ErrInvalidSide == "invalid side"
ErrInvalidType == "invalid order type"
ErrQuantity == "quantity must be > 0"
ErrPrice == "price must be > 0 for LIMIT orders"

StatusOK == 200
StatusBadRequest == 400

\* c.ShouldBindJSON: a field tagged binding:"required" must not hold its zero
\* value; of the required fields only quantity can be zero here.
ShouldBindJSON(req) == IF req.Quantity = 0 THEN ErrBinding ELSE ErrNone

ValidateOrder(req) ==
    IF req.Side \notin {Buy, Sell} THEN ErrInvalidSide
    ELSE IF req.Type \notin {Limit, Market} THEN ErrInvalidType
    ELSE IF req.Quantity <= 0 THEN ErrQuantity
    ELSE IF req.Type = Limit /\ req.Price <= 0 THEN ErrPrice
    ELSE ErrNone

\* The requests of a transport; gRPC requests carry no order_id.
Requests(ids) ==
    [OrderID : ids, ClientID : Owners, Symbol : Symbols, Side : RawSides,
     Type : RawTypes, Price : RawPrices, Quantity : RawQtys]

\* The body of a 400 response.
BadRequest(err) == [status |-> StatusBadRequest, error |-> err]

\* The body of the response to a repeated order_id.
DuplicateResponse(req) ==
    [status |-> StatusOK, message |-> "duplicate order", order_id |-> req.OrderID]

\* dto.SubmitOrderResponse for the order with engine key id, after the call.
\* The engine keeps a supplied order_id as the order's ID and draws one itself
\* otherwise.
SubmitOrderResponse(req, id, os, ts) ==
    [status |-> StatusOK,
     order_id |-> IF req.OrderID = "" THEN ToString(id) ELSE req.OrderID,
     trades |-> ts[id],
     remaining |-> os[id].Remaining]

\* HTTPServer.submitOrder. The duplicate check lets an order_id reach the
\* engine once, so the engine's orders stay keyed by 1..Len(orders).
submitOrder(req, iter) ==
    IF ShouldBindJSON(req) # ErrNone
    THEN /\ response' = BadRequest(ShouldBindJSON(req))
         /\ UNCHANGED <<engineVars, submittedID, firstResponse, snapVars, storeVars, restVars>>
    ELSE IF ValidateOrder(req) # ErrNone
    THEN /\ response' = BadRequest(ValidateOrder(req))
         /\ UNCHANGED <<engineVars, submittedID, firstResponse, snapVars, storeVars, restVars>>
    ELSE IF req.OrderID # "" /\ req.OrderID \in submittedID
    THEN /\ response' = DuplicateResponse(req)
         /\ UNCHANGED <<engineVars, submittedID, firstResponse, snapVars, storeVars, restVars>>
    ELSE /\ SubmitOrder(req.ClientID, req.Symbol, req.Side, req.Type,
                        req.Price, req.Quantity, iter)
         /\ submittedID' = IF req.OrderID # "" THEN submittedID \cup {req.OrderID}
                           ELSE submittedID
         /\ response' = SubmitOrderResponse(req, Len(orders) + 1, orders', trades')
         /\ firstResponse' =
               IF req.OrderID = "" THEN firstResponse
               ELSE [i \in DOMAIN firstResponse \cup {req.OrderID} |->
                        IF i = req.OrderID THEN response' ELSE firstResponse[i]]
         /\ UNCHANGED <<snapVars, storeVars, restVars>>

\* GRPCServer.SubmitOrder: the request goes to the engine as it is.
GRPCSubmitOrder(req, iter) ==
    /\ SubmitOrder(req.ClientID, req.Symbol, req.Side, req.Type,
                   req.Price, req.Quantity, iter)
    /\ response' = SubmitOrderResponse(req, Len(orders) + 1, orders', trades')
    /\ UNCHANGED <<submittedID, firstResponse, snapVars, storeVars, restVars>>

HTTPSubmit ==
    /\ Len(orders) < MaxAPIOrders
    /\ \E req \in Requests(ReqIDs) : \E iter \in Perms(1..(Len(orders) + 1)) :
          submitOrder(req, iter)

GRPCSubmit ==
    /\ Len(orders) < MaxAPIOrders
    /\ \E req \in Requests({""}) : \E iter \in Perms(1..(Len(orders) + 1)) :
          GRPCSubmitOrder(req, iter)

NextAPI == HTTPSubmit \/ GRPCSubmit

SpecAPI == Init /\ [][NextAPI]_vars

\* ------------------------------------- core.Engine: snapshot and restore
\* SpecSnap: the engine of Spec with SnapshotOrderbook and RestoreOrderbook.
\* MaxStoreOrders bounds the orders of the specifications that add snapshots,
\* the repository, the cache or reads to the engine.
MaxStoreOrders == 2
MaxSnapshots == 1

ErrSymbolNotFound == "symbol not found"
ErrSnapshotNotFound == "snapshot not found"

\* The Symbol field of a book: getOrCreateOrderbook builds the book as
\* &domain.OrderbookSnapshot{} and no code of the engine assigns the field.
BookSymbol == ""

SnapshotOrderbookErr(symbol) ==
    IF symbol \notin DOMAIN orderbook THEN ErrSymbolNotFound ELSE ErrNone

\* copy := *ob; e.snapshots[id] = &copy. The copy is kept here with the
\* contents it has when it is taken.
SnapshotOrderbook(symbol) ==
    IF SnapshotOrderbookErr(symbol) # ErrNone THEN UNCHANGED <<engineVars, snapVars>>
    ELSE LET ob == orderbook[symbol]
             id == Len(snapshots) + 1
         IN /\ snapshots' = Append(snapshots, [Bids |-> ob.Bids, Asks |-> ob.Asks,
                                               Symbol |-> BookSymbol])
            /\ captured' = Append(captured, [symbol |-> symbol, Bids |-> ob.Bids,
                                             Asks |-> ob.Asks])
            /\ last' = [op |-> "SnapshotOrderbook", id |-> id]
            /\ UNCHANGED <<orders, trades, orderbook, clock>>

RestoreOrderbookErr(snapshotID) ==
    IF snapshotID \notin 1..Len(snapshots) THEN ErrSnapshotNotFound ELSE ErrNone

\* e.orderbook[snap.Symbol] = snap
RestoreOrderbook(snapshotID) ==
    IF RestoreOrderbookErr(snapshotID) # ErrNone THEN UNCHANGED <<engineVars, snapVars>>
    ELSE LET snap == snapshots[snapshotID]
         IN /\ orderbook' = [s \in DOMAIN orderbook \cup {snap.Symbol} |->
                                IF s = snap.Symbol
                                THEN [Bids |-> snap.Bids, Asks |-> snap.Asks]
                                ELSE orderbook[s]]
            /\ last' = [op |-> "RestoreOrderbook", id |-> snapshotID]
            /\ UNCHANGED <<orders, trades, clock, snapVars>>

StoreSubmit ==
    /\ Len(orders) < MaxStoreOrders
    /\ \E client \in Owners, symbol \in Symbols, side \in Sides, type \in Types :
         \E price \in PricesOf(type), qty \in Qtys :
           \E iter \in Perms(1..(Len(orders) + 1)) :
             /\ SubmitOrder(client, symbol, side, type, price, qty, iter)
             /\ UNCHANGED <<apiVars, snapVars, storeVars, restVars>>

Snapshot ==
    /\ Len(snapshots) < MaxSnapshots
    /\ \E symbol \in Symbols : SnapshotOrderbook(symbol)
    /\ UNCHANGED <<apiVars, storeVars, restVars>>

Restore ==
    /\ \E snapshotID \in 1..MaxSnapshots : RestoreOrderbook(snapshotID)
    /\ UNCHANGED <<apiVars, storeVars, restVars>>

NextSnap == StoreSubmit \/ Modify \/ Cancel \/ Snapshot \/ Restore

SpecSnap == Init /\ [][NextSnap]_vars

\* ------------------------------------ core.Engine over a MemoryRepo
\* SpecRepo: the engine built with NewEngine(repo, nil), repo a MemoryRepo, and
\* a second engine started over the same repository.

\* MemoryRepo.orders. SaveOrder stores the pointer it is given, and SubmitOrder
\* ends with SaveOrder(o) for every order, so the repository holds the very
\* objects of e.orders; repo.ModifyOrder and repo.CancelOrder repeat on them the
\* assignments the engine has just made.
RepoOrders == orders

\* A load that does not look at Status and Remaining.
LoadOpenOrdersOfAnyStatus(symbol, iter) ==
    SelectSeq([i \in 1..Len(iter) |-> RepoOrders[iter[i]]], LAMBDA o : o.Symbol = symbol)

\* MemoryRepo.LoadOpenOrders: copies of the open orders of the symbol, in the
\* order iter in which `range r.orders` yields them.
LoadOpenOrders(symbol, iter) ==
    SelectSeq([i \in 1..Len(iter) |-> RepoOrders[iter[i]]],
              LAMBDA o : o.Symbol = symbol /\ o.Status = Open /\ o.Remaining > 0)

\* The inner loop of LoadOpenOrdersFromRepo: each loaded order is appended to
\* its side of the book.
RECURSIVE AppendLoaded(_, _)
AppendLoaded(books, loaded) ==
    IF loaded = <<>> THEN books
    ELSE AppendLoaded(appendToBook(books, Head(loaded)), Tail(loaded))

\* The outer loop: one symbol after the other.
RECURSIVE LoadSymbols(_, _, _)
LoadSymbols(books, symbols, iter) ==
    IF symbols = <<>> THEN books
    ELSE LoadSymbols(AppendLoaded(getOrCreateOrderbook(books, Head(symbols)),
                                  LoadOpenOrders(Head(symbols), iter)),
                     Tail(symbols), iter)

\* Engine.LoadOpenOrdersFromRepo on an engine whose books are `books`: the
\* books it ends with, every one of them sorted.
LoadOpenOrdersFromRepo(books, symbols, iter) ==
    LET loaded == LoadSymbols(books, symbols, iter)
    IN [s \in DOMAIN loaded |-> sortOrders(loaded[s])]

\* A second engine is created over the repository and loads the open orders.
Rehydrate ==
    /\ \E symbol \in Symbols : \E iter \in Perms(OrderIDs) :
          fresh' = LoadOpenOrdersFromRepo([s \in {} |-> EmptyBook], <<symbol>>, iter)
    /\ UNCHANGED <<engineVars, apiVars, snapVars, cache, held, restVars>>

NextRepo == StoreSubmit \/ Modify \/ Cancel \/ Rehydrate

SpecRepo == Init /\ [][NextRepo]_vars

\* ------------------------------------------ core.Engine over a port.Cache
\* SpecCache: the engine built with NewEngine(nil, cache), and the callers that
\* read from it.
MaxCacheOrders == 1

\* deepCopySnapshot: a book with slices of its own.
deepCopySnapshot(in) == [Bids |-> in.Bids, Asks |-> in.Asks]

\* Cache.SetOrderbook when it succeeds.
SetOrderbook(c, symbol, ob) ==
    [s \in DOMAIN c \cup {symbol} |-> IF s = symbol THEN deepCopySnapshot(ob) ELSE c[s]]

\* What `_ = e.cache.SetOrderbook(ctx, symbol, ob)` can leave in the cache: the
\* new book, or the old contents when the call returns an error (RedisCache
\* returns the error of json.Marshal or of the Redis client), which the engine
\* discards.
CacheOutcomes(symbol, ob) == {SetOrderbook(cache, symbol, ob), cache}

\* What the caller of GetOrder gets: the pointer e.orders[orderID].
OrderRef(orderID) == [kind |-> "order", ref |-> orderID]

\* What the caller of GetOrderbook gets: on a cache hit the copy made by
\* Cache.GetOrderbook, otherwise the pointer e.orderbook[symbol].
BookCopy(ob) == [kind |-> "book copy", value |-> deepCopySnapshot(ob)]
BookRef(symbol) == [kind |-> "book", ref |-> symbol]

GetOrderErr(orderID) == IF orderID \notin OrderIDs THEN ErrNotFound ELSE ErrNone

GetOrder(orderID) ==
    /\ held' = IF GetOrderErr(orderID) # ErrNone THEN held ELSE OrderRef(orderID)
    /\ UNCHANGED <<engineVars, cache>>

GetOrderbookErr(symbol) ==
    IF symbol \notin DOMAIN cache /\ symbol \notin DOMAIN orderbook
    THEN ErrSymbolNotFound ELSE ErrNone

\* The book GetOrderbook hands out, as a value or as a pointer.
GetOrderbookResult(symbol) ==
    IF symbol \in DOMAIN cache THEN BookCopy(cache[symbol]) ELSE BookRef(symbol)

GetOrderbook(symbol) ==
    /\ held' = IF GetOrderbookErr(symbol) # ErrNone THEN held
               ELSE GetOrderbookResult(symbol)
    /\ UNCHANGED <<engineVars, cache>>

\* What the caller sees when it looks at h.
Deref(h, os, books) ==
    IF h.kind = "order" THEN os[h.ref]
    ELSE IF h.kind = "book" THEN deepCopySnapshot(books[h.ref])
    ELSE IF h.kind = "book copy" THEN h.value
    ELSE NoValue

CacheSubmit ==
    /\ Len(orders) < MaxCacheOrders
    /\ \E client \in Owners, symbol \in Symbols, side \in Sides, type \in Types :
         \E price \in PricesOf(type), qty \in Qtys :
           \E iter \in Perms(1..(Len(orders) + 1)) :
             /\ SubmitOrder(client, symbol, side, type, price, qty, iter)
             /\ cache' \in CacheOutcomes(symbol, orderbook'[symbol])
    /\ UNCHANGED <<apiVars, snapVars, fresh, held, restVars>>

CacheModify ==
    /\ \E orderID \in 1..MaxCacheOrders, clientID \in Clients :
         \E newPrice \in Prices, newQty \in Qtys :
           /\ ModifyOrder(orderID, clientID, newPrice, newQty)
           /\ IF ModifyOrderErr(orderID, clientID) # ErrNone THEN cache' = cache
              ELSE cache' \in CacheOutcomes(orders[orderID].Symbol,
                                            orderbook'[orders[orderID].Symbol])
    /\ UNCHANGED <<apiVars, snapVars, fresh, held, restVars>>

CacheCancel ==
    /\ \E orderID \in 1..MaxCacheOrders, clientID \in Clients :
           /\ CancelOrder(orderID, clientID)
           /\ IF CancelOrderErr(orderID, clientID) # ErrNone THEN cache' = cache
              ELSE cache' \in CacheOutcomes(orders[orderID].Symbol,
                                            orderbook'[orders[orderID].Symbol])
    /\ UNCHANGED <<apiVars, snapVars, fresh, held, restVars>>

ReadOrder ==
    /\ \E orderID \in 1..MaxCacheOrders : GetOrder(orderID)
    /\ UNCHANGED <<apiVars, snapVars, fresh, restVars>>

ReadOrderbook ==
    /\ \E symbol \in Symbols : GetOrderbook(symbol)
    /\ UNCHANGED <<apiVars, snapVars, fresh, restVars>>

NextCache == CacheSubmit \/ CacheModify \/ CacheCancel \/ ReadOrder \/ ReadOrderbook

SpecCache == Init /\ [][NextCache]_vars

\* ------------------- core.Engine over a repository and a cache that can fail
\* SpecStore: the engine built with NewEngine(repo, cache), repo a repository
\* that keeps its own copy of what it is given (PgRepo), and both ports able to
\* return an error from any call.
MaxRepoOrders == 2
MaxRepoCalls == 3

ErrStore == "store error"
ErrCache == "cache error"
ErrRowsAffected == "order not found or already closed"

\* PgRepo.SaveOrder: INSERT ... ON CONFLICT (id) DO UPDATE, every column.
PgSaveOrder(rows, o) ==
    [i \in DOMAIN rows \cup {o.ID} |-> IF i = o.ID THEN o ELSE rows[i]]

\* The WHERE clause of PgRepo.CancelOrder and PgRepo.ModifyOrder.
PgOpenRow(rows, orderID, clientID) ==
    /\ orderID \in DOMAIN rows
    /\ rows[orderID].ClientID = clientID
    /\ rows[orderID].Remaining > 0
    /\ rows[orderID].Status = Open

PgCancelOrder(rows, orderID, clientID) ==
    IF PgOpenRow(rows, orderID, clientID)
    THEN [rows EXCEPT ![orderID].Remaining = 0, ![orderID].Status = Cancelled]
    ELSE rows

PgModifyOrder(rows, orderID, clientID, price, qty) ==
    IF PgOpenRow(rows, orderID, clientID)
    THEN [rows EXCEPT ![orderID].Price = price, ![orderID].Quantity = qty,
                      ![orderID].Remaining = qty]
    ELSE rows

\* One call on a port: what it leaves in io = [store, trades, cache] and the
\* error it returns. fails: the database or the cache is failing.
PortCall(io, c, fails) ==
    IF fails
    THEN [io |-> io, err |-> IF c.port = "SetOrderbook" THEN ErrCache ELSE ErrStore]
    ELSE IF c.port = "SaveTrade"
    THEN [io |-> [io EXCEPT !.trades = Append(@, c.trade)], err |-> ErrNone]
    ELSE IF c.port = "SaveOrder"
    THEN [io |-> [io EXCEPT !.store = PgSaveOrder(@, c.order)], err |-> ErrNone]
    ELSE IF c.port = "ModifyOrder"
    THEN [io |-> [io EXCEPT !.store = PgModifyOrder(@, c.orderID, c.clientID,
                                                    c.price, c.qty)],
          err |-> IF PgOpenRow(io.store, c.orderID, c.clientID) THEN ErrNone
                  ELSE ErrRowsAffected]
    ELSE IF c.port = "CancelOrder"
    THEN [io |-> [io EXCEPT !.store = PgCancelOrder(@, c.orderID, c.clientID)],
          err |-> IF PgOpenRow(io.store, c.orderID, c.clientID) THEN ErrNone
                  ELSE ErrRowsAffected]
    ELSE [io |-> [io EXCEPT !.cache = SetOrderbook(@, c.symbol, c.ob)], err |-> ErrNone]

\* The port calls of one engine call, made in order; failing: the positions
\* at which the port is failing. The result carries the log of the calls.
RECURSIVE PortCalls(_, _, _, _, _)
PortCalls(io, cs, failing, i, log) ==
    IF i > Len(cs) THEN [io |-> io, log |-> log]
    ELSE LET r == PortCall(io, cs[i], i \in failing)
         IN PortCalls(r.io, cs, failing, i + 1,
                      Append(log, [port |-> cs[i].port, call |-> cs[i], err |-> r.err]))

\* An engine call that returns the error its cache write returned.
ErrAfterCallsOfCache(log) ==
    IF \E i \in 1..Len(log) : log[i].port = "SetOrderbook" /\ log[i].err # ErrNone
    THEN ErrCache ELSE ErrNone

\* Every port call is written `_ = e.repo.X(...)` / `_ = e.cache.X(...)`: the
\* error is dropped and the engine call returns nil.
ErrAfterCalls(log) == ErrNone

\* The trades of SubmitOrder that reach SaveTrade: the statement comes after
\* the `break` taken when the aggressor is filled, so the trade that fills the
\* aggressor is not among them.
SavedTrades(o, executed) ==
    IF o.Status = Filled THEN SubSeq(executed, 1, Len(executed) - 1) ELSE executed

\* The port calls of SubmitOrder, given the engine's state after matching.
SubmitOrderCalls(o, executed, ob) ==
    [i \in 1..Len(SavedTrades(o, executed)) |->
        [port |-> "SaveTrade", trade |-> SavedTrades(o, executed)[i]]]
    \o <<[port |-> "SaveOrder", order |-> o]>>
    \o <<[port |-> "SetOrderbook", symbol |-> o.Symbol, ob |-> ob]>>

ModifyOrderCalls(o, clientID, newPrice, newQty, ob) ==
    <<[port |-> "ModifyOrder", orderID |-> o.ID, clientID |-> clientID,
       price |-> newPrice, qty |-> newQty],
      [port |-> "SetOrderbook", symbol |-> o.Symbol, ob |-> ob]>>

CancelOrderCalls(o, clientID, ob) ==
    <<[port |-> "CancelOrder", orderID |-> o.ID, clientID |-> clientID],
      [port |-> "SetOrderbook", symbol |-> o.Symbol, ob |-> ob]>>

\* The ports after the calls cs, some of which fail.
Ports(cs) ==
    \E failing \in SUBSET (1..Len(cs)) :
        LET r == PortCalls([store |-> store, trades |-> storeTrades, cache |-> cache],
                           cs, failing, 1, <<>>)
        IN /\ store' = r.io.store
           /\ storeTrades' = r.io.trades
           /\ cache' = r.io.cache
           /\ calls' = r.log

RepoSubmitOrder(symbols) ==
    /\ returned.n < MaxRepoCalls
    /\ Len(orders) < MaxRepoOrders
    /\ \E client \in Owners, symbol \in symbols, side \in Sides, type \in Types :
         \E price \in PricesOf(type), qty \in Qtys :
           \E iter \in Perms(1..(Len(orders) + 1)) :
             LET id == Len(orders) + 1
             IN /\ SubmitOrder(client, symbol, side, type, price, qty, iter)
                /\ Ports(SubmitOrderCalls(orders'[id], trades'[id], orderbook'[symbol]))
                /\ returned' = [op |-> "SubmitOrder", n |-> returned.n + 1, id |-> id,
                                trades |-> trades'[id], err |-> ErrAfterCalls(calls')]
    /\ UNCHANGED <<apiVars, snapVars, fresh, held, concVars, txVars, otherVars>>

RepoModify ==
    /\ returned.n < MaxRepoCalls
    /\ \E orderID \in 1..MaxRepoOrders, clientID \in Clients :
         \E newPrice \in Prices, newQty \in Qtys :
           /\ ModifyOrder(orderID, clientID, newPrice, newQty)
           /\ IF ModifyOrderErr(orderID, clientID) # ErrNone
              THEN /\ returned' = [op |-> "ModifyOrder", n |-> returned.n + 1, id |-> orderID,
                                   err |-> ModifyOrderErr(orderID, clientID)]
                   /\ calls' = <<>>
                   /\ UNCHANGED <<store, storeTrades, cache>>
              ELSE /\ Ports(ModifyOrderCalls(orders'[orderID], clientID, newPrice, newQty,
                                             orderbook'[orders[orderID].Symbol]))
                   /\ returned' = [op |-> "ModifyOrder", n |-> returned.n + 1, id |-> orderID,
                                   err |-> ErrAfterCalls(calls')]
    /\ UNCHANGED <<apiVars, snapVars, fresh, held, concVars, txVars, otherVars>>

RepoCancel ==
    /\ returned.n < MaxRepoCalls
    /\ \E orderID \in 1..MaxRepoOrders, clientID \in Clients :
           /\ CancelOrder(orderID, clientID)
           /\ IF CancelOrderErr(orderID, clientID) # ErrNone
              THEN /\ returned' = [op |-> "CancelOrder", n |-> returned.n + 1, id |-> orderID,
                                   err |-> CancelOrderErr(orderID, clientID)]
                   /\ calls' = <<>>
                   /\ UNCHANGED <<store, storeTrades, cache>>
              ELSE /\ Ports(CancelOrderCalls(orders'[orderID], clientID,
                                             orderbook'[orders[orderID].Symbol]))
                   /\ returned' = [op |-> "CancelOrder", n |-> returned.n + 1, id |-> orderID,
                                   err |-> ErrAfterCalls(calls')]
    /\ UNCHANGED <<apiVars, snapVars, fresh, held, concVars, txVars, otherVars>>

RepoSubmit == RepoSubmitOrder(Symbols)

NextStore == RepoSubmit \/ RepoModify \/ RepoCancel

SpecStore == Init /\ [][NextStore]_vars

\* ------------------------------- core.Engine: loading from the repository
\* SpecLoad: the engine of SpecStore on two symbols, with
\* LoadOpenOrdersFromRepo called on the running engine.
LoadSymbolLists == {<<"X">>, <<"Y">>, <<"X", "Y">>, <<"Y", "X">>}

\* ORDER BY created_at ASC over the rows with the given IDs.
RECURSIVE OrderByCreatedAt(_, _)
OrderByCreatedAt(rows, ids) ==
    IF ids = {} THEN <<>>
    ELSE LET first == CHOOSE i \in ids :
                         \A j \in ids : rows[i].CreatedAt <= rows[j].CreatedAt
         IN <<rows[first]>> \o OrderByCreatedAt(rows, ids \ {first})

\* PgRepo.LoadOpenOrders when the query succeeds.
PgLoadOpenOrders(rows, symbol) ==
    OrderByCreatedAt(rows, {i \in DOMAIN rows :
                              /\ rows[i].Symbol = symbol
                              /\ rows[i].Remaining > 0
                              /\ rows[i].Status = Open})

\* e.orders[o.ID] = o for every loaded order.
StoreLoaded(os, loaded) ==
    [i \in 1..Len(os) |->
        IF \E k \in 1..Len(loaded) : loaded[k].ID = i
        THEN loaded[CHOOSE k \in 1..Len(loaded) : loaded[k].ID = i]
        ELSE os[i]]

\* The first loop of LoadOpenOrdersFromRepo from its i-th symbol on, on
\* st = [orders, books]; failAt: the iteration whose LoadOpenOrders returns an
\* error (0: none does). On the error the method returns at once; otherwise
\* the second loop sorts every book.
RECURSIVE PgLoadSymbols(_, _, _, _)
PgLoadSymbols(st, symbols, i, failAt) ==
    IF i > Len(symbols)
    THEN [orders |-> st.orders,
          books |-> [s \in DOMAIN st.books |-> sortOrders(st.books[s])],
          err |-> ErrNone]
    ELSE IF i = failAt
    THEN [orders |-> st.orders, books |-> st.books, err |-> ErrStore]
    ELSE LET loaded == PgLoadOpenOrders(store, symbols[i])
         IN PgLoadSymbols([orders |-> StoreLoaded(st.orders, loaded),
                           books |-> AppendLoaded(getOrCreateOrderbook(st.books, symbols[i]),
                                                  loaded)],
                          symbols, i + 1, failAt)

\* Engine.LoadOpenOrdersFromRepo over a PgRepo.
Reload ==
    /\ returned.n < MaxRepoCalls
    /\ \E symbols \in LoadSymbolLists : \E failAt \in 0..Len(symbols) :
         LET r == PgLoadSymbols([orders |-> orders, books |-> orderbook], symbols, 1, failAt)
         IN /\ orders' = r.orders
            /\ orderbook' = r.books
            /\ last' = [op |-> "LoadOpenOrdersFromRepo", id |-> 0]
            /\ returned' = [op |-> "LoadOpenOrdersFromRepo", n |-> returned.n + 1,
                            id |-> 0, err |-> r.err]
            /\ calls' = <<>>
    /\ UNCHANGED <<trades, clock, store, storeTrades, cache>>
    /\ UNCHANGED <<apiVars, snapVars, fresh, held, concVars, txVars, otherVars>>

LoadSubmit == RepoSubmitOrder({"X", "Y"})

NextLoad == LoadSubmit \/ RepoModify \/ RepoCancel \/ Reload

SpecLoad == Init /\ [][NextLoad]_vars

\* ------------------------------ core.Engine called from several goroutines
\* SpecLock: the goroutines of Threads call SubmitOrder, ModifyOrder,
\* CancelOrder, SnapshotOrderbook and RestoreOrderbook of one engine (nil
\* repository and cache). Every method starts with e.mu.Lock() and
\* `defer e.mu.Unlock()`: a goroutine is at "Lock" until it gets the mutex, at
\* "body" while it holds it and has not run the method's statements, at
\* "Unlock" when only the deferred Unlock is left.
MaxLockOrders == 2
LockSymbols == {"X", "Y"}
LockPrices == {1}
LockQtys == {1}

\* The calls a goroutine makes; the arguments the mutex does not depend on are
\* drawn when the body runs.
LockCalls ==
    {[op |-> op, symbol |-> symbol] :
        op \in {"SubmitOrder", "SnapshotOrderbook"}, symbol \in LockSymbols}
    \cup {[op |-> op, symbol |-> ""] :
            op \in {"ModifyOrder", "CancelOrder", "RestoreOrderbook"}}

\* The calls of the given kind that have been made and have not run yet.
Pending(op) == {t \in Threads : pc[t] # Idle /\ pc[t].op = op /\ pc[t].at # "Unlock"}

\* A goroutine calls a method of the engine.
Call(t) ==
    /\ pc[t] = Idle
    /\ \E c \in LockCalls :
         /\ c.op = "SubmitOrder" =>
               Len(orders) + Cardinality(Pending("SubmitOrder")) < MaxLockOrders
         /\ c.op = "SnapshotOrderbook" =>
               Len(snapshots) + Cardinality(Pending("SnapshotOrderbook")) < MaxSnapshots
         /\ pc' = [pc EXCEPT ![t] = [at |-> "Lock", op |-> c.op, symbol |-> c.symbol]]
    /\ UNCHANGED <<mu, engineVars, apiVars, snapVars, storeVars, repoVars, txVars, otherVars>>

\* A mutex that lets every goroutine in.
MutexFreeAlways == TRUE

\* sync.Mutex: Lock returns when no goroutine holds the mutex.
MutexFree == mu = Unlocked

\* e.mu.Lock()
Lock(t) ==
    /\ pc[t] # Idle
    /\ pc[t].at = "Lock"
    /\ MutexFree
    /\ mu' = t
    /\ pc' = [pc EXCEPT ![t].at = "body"]
    /\ UNCHANGED <<engineVars, apiVars, snapVars, storeVars, repoVars, txVars, otherVars>>

\* The statements of the method, between Lock and the deferred Unlock.
Body(t) ==
    /\ pc[t] # Idle
    /\ pc[t].at = "body"
    /\ pc' = [pc EXCEPT ![t].at = "Unlock"]
    /\ \/ /\ pc[t].op = "SubmitOrder"
          /\ \E client \in Owners, side \in Sides, price \in LockPrices, qty \in LockQtys :
               \E iter \in Perms(1..(Len(orders) + 1)) :
                 SubmitOrder(client, pc[t].symbol, side, Limit, price, qty, iter)
          /\ UNCHANGED snapVars
       \/ /\ pc[t].op = "ModifyOrder"
          /\ \E orderID \in 1..MaxLockOrders, clientID \in Owners :
               \E newPrice \in LockPrices, newQty \in LockQtys :
                 ModifyOrder(orderID, clientID, newPrice, newQty)
          /\ UNCHANGED snapVars
       \/ /\ pc[t].op = "CancelOrder"
          /\ \E orderID \in 1..MaxLockOrders, clientID \in Owners :
               CancelOrder(orderID, clientID)
          /\ UNCHANGED snapVars
       \/ /\ pc[t].op = "SnapshotOrderbook"
          /\ SnapshotOrderbook(pc[t].symbol)
       \/ /\ pc[t].op = "RestoreOrderbook"
          /\ \E snapshotID \in 1..MaxSnapshots : RestoreOrderbook(snapshotID)
    /\ UNCHANGED <<mu, apiVars, storeVars, repoVars, txVars, otherVars>>

\* defer e.mu.Unlock(), and the return.
Unlock(t) ==
    /\ pc[t] # Idle
    /\ pc[t].at = "Unlock"
    /\ mu' = Unlocked
    /\ pc' = [pc EXCEPT ![t] = Idle]
    /\ UNCHANGED <<engineVars, apiVars, snapVars, storeVars, repoVars, txVars, otherVars>>

NextLock == \E t \in Threads : Call(t) \/ Lock(t) \/ Body(t) \/ Unlock(t)

SpecLock == Init /\ [][NextLock]_vars

\* ------------------------------------------------------------ core.withTx
\* SpecTx: withTx(ctx, repo, fn) run up to MaxTxRuns times, with every outcome
\* of repo.BeginTx, fn, tx.Commit and tx.Rollback. txAt is the statement about
\* to run: "BeginTx", "fn", "Commit", "defer" (a return statement has been
\* reached, or fn has panicked, and the deferred function is due), and
\* "returned" / "panicked" when withTx is over.
MaxTxRuns == 5

ErrBegin == "begin failed"
ErrFn == "fn failed"
ErrCommit == "commit failed"
ErrRollback == "rollback failed"
ErrCanceled == "context canceled"

\* What repo.BeginTx, fn, tx.Commit and tx.Rollback can return.
BeginTxErrs == {ErrNone, ErrBegin, ErrCanceled}
FnOutcomes == {ErrNone, ErrFn, ErrCanceled, "panic"}
CommitErrs == {ErrNone, ErrCommit, ErrCanceled}
RollbackErrs == {ErrNone, ErrRollback}

TxCall(call, err) == [call |-> call, err |-> err]

\* A caller runs withTx.
TxStart ==
    /\ txAt \in {"idle", "returned", "panicked"}
    /\ txRuns < MaxTxRuns
    /\ txRuns' = txRuns + 1
    /\ txAt' = "BeginTx"
    /\ committed' = FALSE
    /\ txCalls' = <<>>
    /\ txErr' = ErrNone
    /\ UNCHANGED <<engineVars, apiVars, snapVars, storeVars, repoVars, concVars, otherVars>>

\* tx, err := repo.BeginTx(ctx); if err != nil { return err }
TxBegin ==
    /\ txAt = "BeginTx"
    /\ \E err \in BeginTxErrs :
         /\ txCalls' = Append(txCalls, TxCall("BeginTx", err))
         /\ txErr' = err
         /\ txAt' = IF err # ErrNone THEN "returned" ELSE "fn"
    /\ UNCHANGED <<committed, txRuns>>
    /\ UNCHANGED <<engineVars, apiVars, snapVars, storeVars, repoVars, concVars, otherVars>>

\* if err := fn(tx); err != nil { return err }
TxFn ==
    /\ txAt = "fn"
    /\ \E out \in FnOutcomes :
         /\ txCalls' = Append(txCalls, TxCall("fn", out))
         /\ txErr' = out
         /\ txAt' = IF out # ErrNone THEN "defer" ELSE "Commit"
    /\ UNCHANGED <<committed, txRuns>>
    /\ UNCHANGED <<engineVars, apiVars, snapVars, storeVars, repoVars, concVars, otherVars>>

\* if err := tx.Commit(ctx); err != nil { return err }; committed = true; return nil
TxCommit ==
    /\ txAt = "Commit"
    /\ \E err \in CommitErrs :
         /\ txCalls' = Append(txCalls, TxCall("Commit", err))
         /\ txErr' = err
         /\ committed' = (err = ErrNone)
    /\ txAt' = "defer"
    /\ UNCHANGED txRuns
    /\ UNCHANGED <<engineVars, apiVars, snapVars, storeVars, repoVars, concVars, otherVars>>

\* A deferred function that rolls back whatever happened.
NeedsRollbackAlways == TRUE

\* if !committed
NeedsRollback == ~committed

\* defer func() { if !committed { _ = tx.Rollback(ctx) } }()
TxDefer ==
    /\ txAt = "defer"
    /\ IF NeedsRollback
       THEN \E err \in RollbackErrs : txCalls' = Append(txCalls, TxCall("Rollback", err))
       ELSE txCalls' = txCalls
    /\ txAt' = IF txErr = "panic" THEN "panicked" ELSE "returned"
    /\ UNCHANGED <<committed, txErr, txRuns>>
    /\ UNCHANGED <<engineVars, apiVars, snapVars, storeVars, repoVars, concVars, otherVars>>

NextTx == TxStart \/ TxBegin \/ TxFn \/ TxCommit \/ TxDefer

SpecTx == Init /\ [][NextTx]_vars

\* ================================================================ claims
\* Vocabulary shared by the claims.

\* The other party of trade t, as seen from order id.
Counterparty(t, id) == IF t.BuyOrder = id THEN t.SellOrder ELSE t.BuyOrder

Names(t, id) == t.BuyOrder = id \/ t.SellOrder = id

\* The trades SubmitOrder returned when order n was submitted: e.trades[n]
\* starts with them (n was new, so its list was empty), and the trades appended
\* later are those of younger aggressors.
Executed(ts, n) == SelectSeq(ts[n], LAMBDA t : Names(t, n) /\ Counterparty(t, n) < n)

\* Sum of the quantities of the trades of ts that name id.
RECURSIVE SumNaming(_, _)
SumNaming(ts, id) ==
    IF ts = <<>> THEN 0
    ELSE (IF Names(Head(ts), id) THEN Head(ts).Quantity ELSE 0) + SumNaming(Tail(ts), id)

\* Sum, over every SubmitOrder call so far, of the returned trades naming id.
RECURSIVE EmittedUpTo(_, _)
EmittedUpTo(n, id) ==
    IF n = 0 THEN 0 ELSE SumNaming(Executed(trades, n), id) + EmittedUpTo(n - 1, id)

FilledQty(id) == EmittedUpTo(Len(orders), id)

\* A step that is a SubmitOrder call; NewID is the order it submitted and
\* Returned the trades it returned, in execution order.
IsSubmit == Len(orders') = Len(orders) + 1
NewID == Len(orders')
Returned == trades'[NewID]
PassiveOf(t) == Counterparty(t, NewID)

\* Quantity of the first k-1 returned trades made against resting order r.
RECURSIVE FilledBefore(_, _)
FilledBefore(k, r) ==
    IF k <= 1 THEN 0
    ELSE (IF PassiveOf(Returned[k - 1]) = r THEN Returned[k - 1].Quantity ELSE 0)
         + FilledBefore(k - 1, r)

\* Remaining of resting order r at the moment the k-th returned trade is made.
RemainingAt(k, r) == orders[r].Remaining - FilledBefore(k, r)

\* The price of resting order r is acceptable to aggressor o.
PriceAcceptable(o, r) ==
    \/ o.Type = Market
    \/ o.Side = Buy /\ orders[r].Price <= o.Price
    \/ o.Side = Sell /\ orders[r].Price >= o.Price

\* r is a resting order aggressor o may trade with: live, on the other side
\* of the same symbol, at an acceptable price.
Eligible(o, r) ==
    /\ r \in OrderIDs
    /\ orders[r].Symbol = o.Symbol
    /\ orders[r].Side # o.Side
    /\ orders[r].Status \in {Open, PartiallyFilled}
    /\ orders[r].Remaining > 0
    /\ PriceAcceptable(o, r)

\* Resting order a goes before resting order b of the same side.
Before(a, b) ==
    \/ orders[a].Side = Sell /\ orders[a].Price < orders[b].Price
    \/ orders[a].Side = Buy /\ orders[a].Price > orders[b].Price
    \/ orders[a].Price = orders[b].Price /\ orders[a].CreatedAt < orders[b].CreatedAt

HasTraded(id) == FilledQty(id) > 0

PartlyFilled(id) ==
    HasTraded(id) /\ 0 < orders[id].Remaining /\ orders[id].Remaining < orders[id].Quantity

\* Order id has an entry in one of the books.
InBook(books, id) ==
    \E s \in DOMAIN books :
        \/ \E i \in 1..Len(books[s].Bids) : books[s].Bids[i].ID = id
        \/ \E i \in 1..Len(books[s].Asks) : books[s].Asks[i].ID = id

SeqPrices(s) == {s[i].Price : i \in 1..Len(s)}

\* C1: fill conservation. Every order satisfies Quantity = Remaining + the sum
\* of the quantities of the trades returned by SubmitOrder that name it. Stated
\* here for the orders CancelOrder has not zeroed: for a cancelled order the
\* claim cannot hold next to the Cancel contract (Remaining := 0 without a
\* trade), and the code breaks it for the others too.
C1_FillConservation ==
    \A id \in OrderIDs :
        orders[id].Status # Cancelled =>
            orders[id].Quantity = orders[id].Remaining + FilledQty(id)

\* C2: no crossed book. For every symbol whose book has both sides non-empty,
\* the highest bid price is strictly lower than the lowest ask price.
C2_NoCrossedBook ==
    \A s \in DOMAIN orderbook :
        (orderbook[s].Bids # <<>> /\ orderbook[s].Asks # <<>>) =>
            \A b \in SeqPrices(orderbook[s].Bids), a \in SeqPrices(orderbook[s].Asks) : b < a

\* C3: price-time priority of execution. Whenever SubmitOrder makes a trade
\* against resting order R, no other eligible resting order on R's side with a
\* strictly better price, or the same price and an earlier CreatedAt, still has
\* Remaining > 0 at that moment.
C3_PriceTimePriority ==
    [][IsSubmit =>
        \A k \in 1..Len(Returned) : \A r2 \in OrderIDs :
            (/\ r2 # PassiveOf(Returned[k])
             /\ Eligible(orders'[NewID], r2)
             /\ Before(r2, PassiveOf(Returned[k])))
            => RemainingAt(k, r2) <= 0]_vars

\* C4: every trade SubmitOrder returns has Quantity > 0 and the price the
\* resting order had at the moment of the trade, whether the aggressor is a
\* LIMIT or a MARKET order.
C4_TradeAtPassivePrice ==
    [][IsSubmit =>
        \A k \in 1..Len(Returned) :
            /\ Returned[k].Quantity > 0
            /\ PassiveOf(Returned[k]) \in OrderIDs
            /\ Returned[k].Price = orders[PassiveOf(Returned[k])].Price]_vars

\* A LIMIT aggressor has just traded at a price that is not its own, and a
\* MARKET aggressor has traded.
C4_Witness ==
    /\ last.op = "SubmitOrder"
    /\ \E k \in 1..Len(Executed(trades, last.id)) :
           Executed(trades, last.id)[k].Price # orders[last.id].Price
    /\ \E m \in OrderIDs : orders[m].Type = Market /\ Executed(trades, m) # <<>>

\* C5: status/Remaining consistency. Status = FILLED iff Remaining = 0 and the
\* order has traded; CANCELLED implies Remaining = 0; OPEN implies Remaining =
\* Quantity; 0 < Remaining < Quantity implies PARTIALLY_FILLED.
C5_StatusConsistency ==
    \A id \in OrderIDs :
        /\ orders[id].Status = Filled <=> (orders[id].Remaining = 0 /\ HasTraded(id))
        /\ orders[id].Status = Cancelled => orders[id].Remaining = 0
        /\ orders[id].Status = Open => orders[id].Remaining = orders[id].Quantity
        /\ (0 < orders[id].Remaining /\ orders[id].Remaining < orders[id].Quantity)
               => orders[id].Status = PartiallyFilled

\* C6: market remainder policy. When SubmitOrder of a MARKET order returns the
\* order has Remaining = 0 and Status FILLED or CANCELLED and is not in the
\* book, and no SubmitOrder trades against a MARKET order as the passive side.
C6_MarketRemainder ==
    [][IsSubmit =>
        /\ orders'[NewID].Type = Market =>
              /\ orders'[NewID].Remaining = 0
              /\ orders'[NewID].Status \in {Filled, Cancelled}
              /\ ~InBook(orderbook', NewID)
        /\ \A k \in 1..Len(Returned) : orders[PassiveOf(Returned[k])].Type # Market]_vars

\* The best ask of the book of symbol s, when it has asks.
HasAsks(s) == s \in DOMAIN orderbook /\ orderbook[s].Asks # <<>>
BestAsk(s) == CHOOSE p \in SeqPrices(orderbook[s].Asks) :
                  \A q \in SeqPrices(orderbook[s].Asks) : p <= q

\* C7: limit price filter. A LIMIT BUY never trades against an ask priced above
\* its limit, a LIMIT SELL never against a bid priced below its limit; a LIMIT
\* BUY priced strictly below the best ask returns no trades, changes no other
\* order and no ask, and rests on the bid side with Remaining = Quantity.
C7_LimitPriceFilter ==
    [][(IsSubmit /\ orders'[NewID].Type = Limit) =>
        LET o == orders'[NewID] IN
        /\ \A k \in 1..Len(Returned) :
              /\ o.Side = Buy => orders[PassiveOf(Returned[k])].Price <= o.Price
              /\ o.Side = Sell => orders[PassiveOf(Returned[k])].Price >= o.Price
        /\ (o.Side = Buy /\ HasAsks(o.Symbol) /\ o.Price < BestAsk(o.Symbol)) =>
              /\ Returned = <<>>
              /\ \A id \in OrderIDs : orders'[id] = orders[id]
              /\ orderbook'[o.Symbol].Asks = orderbook[o.Symbol].Asks
              /\ o.Remaining = o.Quantity
              /\ \E i \in 1..Len(orderbook'[o.Symbol].Bids) :
                    /\ orderbook'[o.Symbol].Bids[i].ID = NewID
                    /\ orderbook'[o.Symbol].Bids[i].Remaining = o.Quantity]_vars

\* A LIMIT BUY has just been submitted below a live ask: it made no trade and
\* rests with its whole quantity.
C7_Witness ==
    /\ last.op = "SubmitOrder"
    /\ orders[last.id].Side = Buy /\ orders[last.id].Type = Limit
    /\ trades[last.id] = <<>>
    /\ orders[last.id].Remaining = orders[last.id].Quantity
    /\ \E a \in OrderIDs :
          /\ a < last.id /\ orders[a].Side = Sell /\ orders[a].Status = Open
          /\ orders[a].Remaining > 0 /\ orders[a].Price > orders[last.id].Price
    /\ \A p \in SeqPrices(orderbook[orders[last.id].Symbol].Asks) : p > orders[last.id].Price

\* C8: exact-fit match. An aggressor whose Quantity equals the Remaining of the
\* single eligible resting order gets exactly one trade for that quantity, and
\* afterwards both orders have Remaining = 0 and Status = FILLED.
C8_ExactFit ==
    [][IsSubmit =>
        \A r \in OrderIDs :
            (/\ \A r2 \in OrderIDs : Eligible(orders'[NewID], r2) <=> r2 = r
             /\ orders'[NewID].Quantity = orders[r].Remaining)
            => /\ Len(Returned) = 1
               /\ PassiveOf(Returned[1]) = r
               /\ Returned[1].Quantity = orders'[NewID].Quantity
               /\ orders'[NewID].Remaining = 0 /\ orders'[NewID].Status = Filled
               /\ orders'[r].Remaining = 0 /\ orders'[r].Status = Filled]_vars

\* An aggressor has just been filled in one trade for its whole quantity by a
\* resting order that it filled too.
C8_Witness ==
    /\ last.op = "SubmitOrder"
    /\ Len(trades[last.id]) = 1
    /\ trades[last.id][1].Quantity = orders[last.id].Quantity
    /\ orders[last.id].Status = Filled
    /\ orders[Counterparty(trades[last.id][1], last.id)].Status = Filled
    /\ orders[Counterparty(trades[last.id][1], last.id)].Remaining = 0

BookEntries(books, s, id) ==
    {books[s].Bids[i] : i \in {j \in 1..Len(books[s].Bids) : books[s].Bids[j].ID = id}}
    \cup {books[s].Asks[i] : i \in {j \in 1..Len(books[s].Asks) : books[s].Asks[j].ID = id}}

\* C10: a successful ModifyOrder(orderID, clientID, newPrice, newQty) sets
\* Price = newPrice, Quantity = newQty, Remaining = newQty, keeps Status = OPEN
\* and changes no other order; the order is then matched as a passive order at
\* the new price and quantity: an aggressor submitted right after it, for the
\* new quantity and with the modified order as its single eligible resting
\* order, gets one trade at the new price and fills the modified order.
C10_ModifyThenMatch ==
    [][/\ (last'.op = "ModifyOrder" /\ engineVars' # engineVars) =>
            LET id == last'.id IN
            \A c \in Clients, p \in Prices, q \in Qtys :
                (ModifyOrderErr(id, c) = ErrNone /\ ModifyOrder(id, c, p, q)) =>
                    /\ orders'[id] = [orders[id] EXCEPT !.Price = p, !.Quantity = q,
                                                        !.Remaining = q, !.Status = Open]
                    /\ \A other \in OrderIDs \ {id} : orders'[other] = orders[other]
                    /\ Len(orders') = Len(orders)
                    /\ trades' = trades
                    /\ BookEntries(orderbook', orders[id].Symbol, id) = {orders'[id]}
       /\ (IsSubmit /\ last.op = "ModifyOrder") =>
            LET r == last.id IN
            (/\ \A r2 \in OrderIDs : Eligible(orders'[NewID], r2) <=> r2 = r
             /\ orders'[NewID].Quantity = orders[r].Quantity)
            => /\ Len(Returned) = 1
               /\ PassiveOf(Returned[1]) = r
               /\ Returned[1].Price = orders[r].Price
               /\ Returned[1].Quantity = orders[r].Quantity
               /\ orders'[r].Status = Filled /\ orders'[r].Remaining = 0]_vars

\* An aggressor has just been filled in one trade by a resting order that
\* ModifyOrder had repriced (a MARKET order is submitted with Price 0, so only
\* ModifyOrder gives it a price), at that price and for its whole quantity.
C10_Witness ==
    /\ last.op = "SubmitOrder"
    /\ Len(trades[last.id]) = 1
    /\ LET t == trades[last.id][1]
           r == Counterparty(t, last.id)
       IN /\ orders[r].Type = Market /\ orders[r].Price > 0
          /\ t.Price = orders[r].Price
          /\ t.Quantity = orders[r].Quantity
          /\ orders[r].Status = Filled /\ orders[r].Remaining = 0

\* The side of the book of its symbol that order o belongs to.
SideOf(books, o) == IF o.Side = Buy THEN books[o.Symbol].Bids ELSE books[o.Symbol].Asks

\* The positions of order id in sequence s of book entries.
PositionsOf(s, id) == {i \in 1..Len(s) : s[i].ID = id}

\* A step in which ModifyOrder returned true; ModifiedID is the order it changed.
IsModify == last'.op = "ModifyOrder" /\ engineVars' # engineVars
ModifiedID == last'.id

\* C11: a successfully modified order loses its time priority. After
\* ModifyOrder the order stands in its side of the book behind every other
\* live resting order of that side that has the order's new price and was in
\* the book before the modify.
C11_ModifyLosesPriority ==
    [][IsModify =>
        LET m == orders'[ModifiedID]
            side == SideOf(orderbook', m)
        IN \A r \in OrderIDs \ {ModifiedID} :
              (/\ orders[r].Symbol = m.Symbol /\ orders[r].Side = m.Side
               /\ orders[r].Status = Open /\ orders[r].Remaining > 0
               /\ orders[r].Price = m.Price
               /\ PositionsOf(SideOf(orderbook, m), r) # {})
              => \A i \in PositionsOf(side, r), j \in PositionsOf(side, ModifiedID) : i < j]_vars

\* The order exists, is owned by clientID and is OPEN or PARTIALLY_FILLED with
\* Remaining > 0.
Cancellable(orderID, clientID) ==
    /\ orderID \in OrderIDs
    /\ orders[orderID].ClientID = clientID
    /\ orders[orderID].Status \in {Open, PartiallyFilled}
    /\ orders[orderID].Remaining > 0

C13_CancelTerminalIsNoOp ==
    [][\A id \in OrderIDs, c \in Clients :
        orders[id].Status \in {Filled, Cancelled} =>
            /\ CancelOrderErr(id, c) # ErrNone
            /\ orders[id].ClientID = c => CancelOrderErr(id, c) = ErrCancelNonOpen
            /\ CancelOrder(id, c) => UNCHANGED <<orders, trades, orderbook>>]_vars

\* CancelOrder has just cancelled an order while another order is FILLED: a
\* cancel of either is now a cancel of a terminal order.
C13_Witness ==
    /\ last.op = "CancelOrder"
    /\ orders[last.id].Status = Cancelled
    /\ \E f \in OrderIDs : orders[f].Status = Filled /\ orders[f].Remaining = 0

\* An order ID the engine does not hold.
UnknownID == Len(orders) + 1

\* C14: ModifyOrder or CancelOrder called with a clientID that does not own an
\* existing order fails with an error that differs from the error returned for
\* an unknown order ID (and changes no state: a call that returns an error is
\* a call that leaves every variable unchanged).
C14_PermissionDeniedDistinct ==
    \A id \in OrderIDs, c \in Clients :
        orders[id].ClientID # c =>
            /\ ModifyOrderErr(id, c) # ErrNone
            /\ CancelOrderErr(id, c) # ErrNone
            /\ ModifyOrderErr(id, c) # ModifyOrderErr(UnknownID, c)
            /\ CancelOrderErr(id, c) # CancelOrderErr(UnknownID, c)

\* The fields of order o pass the preconditions of Submit.
ValidFields(o) ==
    /\ o.Side \in {Buy, Sell}
    /\ o.Type \in {Limit, Market}
    /\ o.Quantity > 0
    /\ o.Type = Limit => o.Price > 0

\* C15: submit preconditions. Whichever transport delivers it, an order with a
\* side other than BUY/SELL, a type other than LIMIT/MARKET, Quantity <= 0, or
\* Type = LIMIT with Price <= 0 is rejected before anything changes: no call
\* adds such an order to the engine.
C15_SubmitPreconditions ==
    [][IsSubmit => ValidFields(orders'[NewID])]_vars

\* C16: idempotent submission. A submit that repeats an order_id already
\* accepted adds no order, no book entry and no trade, and is answered with the
\* outcome (order id, trades, remaining) of the first call.
C16_IdempotentSubmit ==
    [][\A id \in submittedID :
        (response'.status = StatusOK /\ response'.order_id = id) =>
            /\ UNCHANGED <<orders, trades, orderbook>>
            /\ response' = firstResponse[id]]_vars

\* A step in which RestoreOrderbook returned true.
IsRestore == last'.op = "RestoreOrderbook" /\ engineVars' # engineVars

\* C17: snapshot/restore round trip. If id = SnapshotOrderbook(sym) captured
\* book S then, whatever SubmitOrder, ModifyOrder and CancelOrder calls came
\* in between, after RestoreOrderbook(id) the engine's book for sym equals S in
\* Bids and Asks.
C17_SnapshotRestoreRoundTrip ==
    [][IsRestore =>
        LET S == captured[last'.id]
        IN /\ S.symbol \in DOMAIN orderbook'
           /\ orderbook'[S.symbol].Bids = S.Bids
           /\ orderbook'[S.symbol].Asks = S.Asks]_vars

\* What the rehydration claim compares of a side of a book: which orders, in
\* which order, at which Price and with which Remaining.
SideView(side) == [i \in 1..Len(side) |->
                      [ID |-> side[i].ID, Price |-> side[i].Price,
                       Remaining |-> side[i].Remaining]]

\* C18: rehydration. When the engine holds book B for a symbol, a fresh engine
\* created over the same repository that calls LoadOpenOrdersFromRepo for that
\* symbol holds a book equal to B: the same orders on each side, in the same
\* order, with the same Price and Remaining.
C18_Rehydration ==
    [][fresh' # fresh =>
        \A s \in DOMAIN fresh' \cap DOMAIN orderbook :
            /\ SideView(fresh'[s].Bids) = SideView(orderbook[s].Bids)
            /\ SideView(fresh'[s].Asks) = SideView(orderbook[s].Asks)]_vars

\* C19: GetOrderbook never serves an out-of-date book. After any sequence of
\* operations, including ones whose cache write failed, the book that
\* GetOrderbook(sym) hands out equals the engine's current book for sym.
C19_GetOrderbookIsCurrent ==
    \A sym \in DOMAIN orderbook :
        Deref(GetOrderbookResult(sym), orders, orderbook) = deepCopySnapshot(orderbook[sym])

\* C20: reads return value-copies. A SubmitOrder, ModifyOrder or CancelOrder
\* call made after a GetOrder or GetOrderbook never changes the value that
\* read returned.
C20_ReadsAreCopies ==
    [][(held' = held /\ held.kind # "none") =>
        Deref(held, orders', orderbook') = Deref(held, orders, orderbook)]_vars

\* Vocabulary of the claims about the repository and the cache.
\* A step in which the engine is called over its ports.
IsCall == returned'.n = returned.n + 1

WroteCache(log) == \E i \in 1..Len(log) : log[i].port = "SetOrderbook"

CacheWriteFailed(log) ==
    \E i \in 1..Len(log) : log[i].port = "SetOrderbook" /\ log[i].err # ErrNone

StoreWriteFailed(log) ==
    \E i \in 1..Len(log) : log[i].port # "SetOrderbook" /\ log[i].err # ErrNone

\* The step changes orders, trades and book as the engine without ports does
\* when it accepts the same call, and returns the same trades.
AcceptedByEngineAlone ==
    \/ /\ returned'.op = "SubmitOrder"
       /\ \E client \in Owners, symbol \in Symbols, side \in Sides, type \in Types :
            \E price \in PricesOf(type), qty \in Qtys :
              \E iter \in Perms(1..(Len(orders) + 1)) :
                SubmitOrder(client, symbol, side, type, price, qty, iter)
       /\ returned'.trades = trades'[returned'.id]
    \/ /\ returned'.op = "ModifyOrder"
       /\ \E clientID \in Clients, newPrice \in Prices, newQty \in Qtys :
            /\ ModifyOrderErr(returned'.id, clientID) = ErrNone
            /\ ModifyOrder(returned'.id, clientID, newPrice, newQty)
    \/ /\ returned'.op = "CancelOrder"
       /\ \E clientID \in Clients :
            /\ CancelOrderErr(returned'.id, clientID) = ErrNone
            /\ CancelOrder(returned'.id, clientID)

\* C21: cache failures never fail an operation. Every SubmitOrder, ModifyOrder
\* and CancelOrder that gets as far as cache.SetOrderbook returns nil and
\* leaves the orders, trades and book, and returns the trades, that the engine
\* alone produces for the call, whether SetOrderbook succeeds or returns an
\* error.
C21_CacheFailureIsHarmless ==
    [][(IsCall /\ WroteCache(calls')) =>
          (returned'.err = ErrNone /\ AcceptedByEngineAlone)]_vars

\* A SubmitOrder that traded has returned while the cache write failed and
\* every repository write succeeded.
C21_Witness ==
    /\ returned.op = "SubmitOrder"
    /\ returned.trades # <<>>
    /\ CacheWriteFailed(calls)
    /\ ~StoreWriteFailed(calls)
    /\ returned.err = ErrNone

\* C22: store failure has no side effects. If a repository write (SaveOrder,
\* SaveTrade, ModifyOrder, CancelOrder) fails during SubmitOrder, ModifyOrder
\* or CancelOrder, the call returns an error and the engine's orders, trade
\* lists and book, and the store, are as they were before the call.
C22_StoreFailureHasNoEffect ==
    [][(IsCall /\ StoreWriteFailed(calls')) =>
          /\ returned'.err # ErrNone
          /\ UNCHANGED <<orders, trades, orderbook, store, storeTrades>>]_vars

\* Vocabulary of the claims about goroutines.
\* The goroutine holds e.mu: it is between Lock and the deferred Unlock.
InSection(t) == pc[t] # Idle /\ pc[t].at \in {"body", "Unlock"}

Mutating(t) ==
    pc[t] # Idle /\ pc[t].op \in {"SubmitOrder", "ModifyOrder", "CancelOrder",
                                  "RestoreOrderbook"}

\* The step is one whole call of the engine used from a single goroutine.
SequentialCall ==
    \/ /\ \E client \in Owners, symbol \in LockSymbols, side \in Sides :
            \E price \in LockPrices, qty \in LockQtys :
              \E iter \in Perms(1..(Len(orders) + 1)) :
                SubmitOrder(client, symbol, side, Limit, price, qty, iter)
       /\ UNCHANGED snapVars
    \/ /\ \E orderID \in 1..MaxLockOrders, clientID \in Owners :
            \E newPrice \in LockPrices, newQty \in LockQtys :
              ModifyOrder(orderID, clientID, newPrice, newQty)
       /\ UNCHANGED snapVars
    \/ /\ \E orderID \in 1..MaxLockOrders, clientID \in Owners :
            CancelOrder(orderID, clientID)
       /\ UNCHANGED snapVars
    \/ \E symbol \in LockSymbols : SnapshotOrderbook(symbol)
    \/ \E snapshotID \in 1..MaxSnapshots : RestoreOrderbook(snapshotID)

\* C23: same-symbol serialisation. No two mutating calls (SubmitOrder,
\* ModifyOrder, CancelOrder, RestoreOrderbook), on the same symbol or on
\* different ones, are between Lock and Unlock at the same time; and the
\* engine's state changes only in a step of the one goroutine holding e.mu,
\* which is one whole call of the sequential engine, so concurrent calls take
\* effect in the order in which they get the mutex.
C23_SameSymbolSerialised ==
    /\ [](\A t, u \in Threads :
             (t # u /\ Mutating(t) /\ Mutating(u)) => ~(InSection(t) /\ InSection(u)))
    /\ [][(engineVars' # engineVars \/ snapVars' # snapVars) =>
             /\ \E t \in Threads :
                   /\ mu = t
                   /\ pc[t].at = "body" /\ pc'[t].at = "Unlock"
                   /\ \A u \in Threads \ {t} : ~InSection(u) /\ pc'[u] = pc[u]
             /\ SequentialCall]_vars

\* One goroutine holds e.mu inside SubmitOrder on a symbol while the other has
\* called SubmitOrder on the same symbol and waits for the mutex.
C23_Witness ==
    \E t, u \in Threads :
        /\ t # u
        /\ InSection(t) /\ pc[t].op = "SubmitOrder" /\ pc[t].at = "body"
        /\ pc[u] # Idle /\ pc[u].op = "SubmitOrder" /\ pc[u].at = "Lock"
        /\ pc[u].symbol = pc[t].symbol
        /\ mu = t

\* C24: cross-symbol parallelism. A goroutine that has called SubmitOrder on
\* one symbol does not wait for a SubmitOrder on another symbol: while the
\* other call is between Lock and Unlock, the first can still get past its own
\* Lock.
C24_CrossSymbolParallel ==
    \A t, u \in Threads :
        (/\ t # u
         /\ pc[t] # Idle /\ pc[t].op = "SubmitOrder" /\ pc[t].at = "Lock"
         /\ InSection(u) /\ pc[u].op = "SubmitOrder"
         /\ pc[u].symbol # pc[t].symbol)
        => MutexFree

\* The ordering of one side of a book.
BidsOrdered(s) ==
    \A i, j \in 1..Len(s) :
        i < j => \/ s[i].Price > s[j].Price
                 \/ s[i].Price = s[j].Price /\ s[i].CreatedAt <= s[j].CreatedAt

AsksOrdered(s) ==
    \A i, j \in 1..Len(s) :
        i < j => \/ s[i].Price < s[j].Price
                 \/ s[i].Price = s[j].Price /\ s[i].CreatedAt <= s[j].CreatedAt

\* C25: book ordering. After any sequence of SubmitOrder, ModifyOrder,
\* CancelOrder and LoadOpenOrdersFromRepo calls the Bids of every symbol are
\* sorted by price descending then CreatedAt ascending, and the Asks by price
\* ascending then CreatedAt ascending.
C25_BookOrdering ==
    \A sym \in DOMAIN orderbook :
        BidsOrdered(orderbook[sym].Bids) /\ AsksOrdered(orderbook[sym].Asks)

\* The entries of both sides of a book.
Resting(ob) == {ob.Bids[i] : i \in 1..Len(ob.Bids)} \cup {ob.Asks[i] : i \in 1..Len(ob.Asks)}

\* C26: only live orders rest. Every entry of a symbol's Bids and Asks belongs
\* to an order whose record in e.orders (what GetOrder returns) has Status
\* OPEN or PARTIALLY_FILLED and Remaining > 0, and carries that record's
\* Remaining; a FILLED or CANCELLED order is not in the book.
C26_OnlyLiveOrdersRest ==
    \A sym \in DOMAIN orderbook :
        \A e \in Resting(orderbook[sym]) :
            /\ orders[e.ID].Status \in {Open, PartiallyFilled}
            /\ orders[e.ID].Remaining > 0
            /\ e.Remaining = orders[e.ID].Remaining

\* The elements of a sequence.
Range(s) == {s[i] : i \in 1..Len(s)}

\* The trades that a call handed to SaveTrade.
PassedToSaveTrade(log) == {log[i].call.trade : i \in {k \in 1..Len(log) : log[k].port = "SaveTrade"}}

\* C27: every trade is recorded for both parties. Each trade returned by
\* SubmitOrder is passed to the repository's SaveTrade and is listed by
\* GetTradesForOrder for its BuyOrder and for its SellOrder, the trade that
\* completes the aggressor included; the BuyOrder is a BUY order and the
\* SellOrder a SELL order of the same symbol.
C27_TradesRecordedForBoth ==
    [][(IsCall /\ returned'.op = "SubmitOrder") =>
          \A tr \in Range(returned'.trades) :
              /\ tr \in PassedToSaveTrade(calls')
              /\ tr \in Range(trades'[tr.BuyOrder])
              /\ tr \in Range(trades'[tr.SellOrder])
              /\ orders'[tr.BuyOrder].Side = Buy
              /\ orders'[tr.SellOrder].Side = Sell
              /\ orders'[tr.BuyOrder].Symbol = orders'[tr.SellOrder].Symbol]_vars

\* The store holds the engine's record of every order.
StoreMirrors(rows, os) == \A i \in 1..Len(os) : i \in DOMAIN rows /\ rows[i] = os[i]

\* The orders of a SubmitOrder: the aggressor and the counterparties of its trades.
PartiesOf(ret) ==
    {ret.id} \cup {tr.BuyOrder : tr \in Range(ret.trades)}
             \cup {tr.SellOrder : tr \in Range(ret.trades)}

\* C28: the store mirrors the engine after each Submit. When SubmitOrder
\* returns after repository calls that all succeeded, on a store that held the
\* engine's records before the call, the store's row of the aggressor and of
\* every counterparty that traded has the Remaining and Status of the
\* engine's order.
C28_StoreMirrorsEngine ==
    [][(/\ IsCall /\ returned'.op = "SubmitOrder"
        /\ StoreMirrors(store, orders)
        /\ ~StoreWriteFailed(calls')) =>
          \A id \in PartiesOf(returned') :
              /\ id \in DOMAIN store'
              /\ store'[id].Remaining = orders'[id].Remaining
              /\ store'[id].Status = orders'[id].Status]_vars

\* Vocabulary of the claim about withTx.
\* The positions in the log of the calls of one kind, and of those that
\* returned nil / an error.
TxCalled(call) == {i \in 1..Len(txCalls) : txCalls[i].call = call}
TxSucceeded(call) == {i \in TxCalled(call) : txCalls[i].err = ErrNone}
TxFailed(call) == {i \in TxCalled(call) : txCalls[i].err \notin {ErrNone, "panic"}}

\* C29: the commit/rollback protocol of withTx. fn is invoked only if BeginTx
\* succeeded; Commit is called only if fn returned nil; withTx returns nil only
\* if Commit succeeded; Rollback is called exactly once whenever fn or Commit
\* returned an error, and never after a successful Commit; the error of fn or
\* Commit is returned unchanged.
C29_WithTxProtocol ==
    /\ \A i \in TxCalled("fn") : \E j \in TxSucceeded("BeginTx") : j < i
    /\ \A i \in TxCalled("Commit") : \E j \in TxSucceeded("fn") : j < i
    /\ (txAt = "returned" /\ txErr = ErrNone) => TxSucceeded("Commit") # {}
    /\ Cardinality(TxCalled("Rollback")) <= 1
    /\ (txAt = "returned" /\ TxFailed("fn") \cup TxFailed("Commit") # {}) =>
           Cardinality(TxCalled("Rollback")) = 1
    /\ TxSucceeded("Commit") # {} => TxCalled("Rollback") = {}
    /\ txAt = "returned" =>
           \A i \in TxFailed("fn") \cup TxFailed("Commit") : txErr = txCalls[i].err

\* withTx has returned the error of a Commit that failed after fn returned nil,
\* and has rolled back.
C29_Witness ==
    /\ txAt = "returned"
    /\ txErr = ErrCommit
    /\ TxSucceeded("fn") # {}
    /\ TxFailed("Commit") # {}
    /\ TxCalled("Rollback") # {}

\* C30: the cache is refreshed only after a successful commit. During
\* SubmitOrder, ModifyOrder and CancelOrder, cache.SetOrderbook is called only
\* after every store write of the call has succeeded: no call on the
\* repository that comes before it has returned an error.
C30_CacheAfterCommit ==
    [][IsCall =>
          \A i \in 1..Len(calls') :
              calls'[i].port = "SetOrderbook" =>
                  \A j \in 1..(i - 1) : calls'[j].err = ErrNone]_vars

\* C31: the aggressor rests only after matching and only if unfilled. When
\* SubmitOrder returns, the submitted order is in its symbol's book if and only
\* if it is a LIMIT order with Remaining > 0; a fully filled aggressor is not
\* in the book, and no returned trade has the aggressor on both sides.
C31_AggressorRestsIffUnfilled ==
    [][IsSubmit =>
        /\ InBook(orderbook', NewID)
               <=> (orders'[NewID].Type = Limit /\ orders'[NewID].Remaining > 0)
        /\ \A k \in 1..Len(Returned) : Returned[k].BuyOrder # Returned[k].SellOrder]_vars

\* ------------------- core.Engine called from goroutines without the mutex
\* SpecRace: the engine built with NewEngine(repo, nil), repo a MemoryRepo,
\* used by the goroutines of Threads: SubmitOrder (under e.mu),
\* LoadOpenOrdersFromRepo (which never takes e.mu) and the HTTP handler
\* getOrderbook, which copies the book GetOrderbook returned after GetOrderbook
\* has released e.mu. Where two goroutines use the same memory without a lock
\* between them the model interleaves their statements, and lets the Go
\* runtime stop the process when it detects concurrent use of a map.
MaxRaceOrders == 2
MaxLoads == 1
RaceQtys == {1, 2}
StatusNotFound == 404

\* The object MemoryRepo.orders[i] points to. SaveOrder stores the pointer the
\* engine passed, so the repository and e.orders share the object until
\* LoadOpenOrdersFromRepo puts a copy into e.orders[i]: store[i] is
\* [shared |-> TRUE], or holds the value of the repository's own object.
SharedRow == [shared |-> TRUE, o |-> NoValue]
RepoRow(i) == IF store[i].shared THEN orders[i] ELSE store[i].o

\* MemoryRepo.LoadOpenOrders: copies of the open orders of the symbol, in the
\* order in which `range r.orders` yields them.
MemLoadOpenOrders(symbol, iter) ==
    SelectSeq([k \in 1..Len(iter) |-> RepoRow(iter[k])],
              LAMBDA o : o.Symbol = symbol /\ o.Status = Open /\ o.Remaining > 0)

\* The calls made and not yet past their first statement.
RacePending(op) == {t \in Threads : pc[t] # Idle /\ pc[t].op = op /\ pc[t].at \in {"Lock", "body"}}

\* A goroutine calls SubmitOrder or the handler getOrderbook: both start with
\* e.mu.Lock().
RaceCall(t) ==
    /\ pc[t] = Idle
    /\ \E op \in {"SubmitOrder", "getOrderbook"}, symbol \in Symbols :
         /\ op = "SubmitOrder" =>
               Len(orders) + Cardinality(RacePending("SubmitOrder")) < MaxRaceOrders
         /\ pc' = [pc EXCEPT ![t] = [at |-> "Lock", op |-> op, symbol |-> symbol]]
    /\ UNCHANGED <<mu, engineVars, apiVars, snapVars, storeVars, repoVars, txVars, otherVars>>

\* SubmitOrder up to sortOrders(ob): the order is stamped, put into e.orders
\* and appended to the book.
SubmitInsert(t) ==
    /\ pc[t] # Idle /\ pc[t].at = "body" /\ pc[t].op = "SubmitOrder"
    /\ \E client \in Owners, side \in Sides, price \in LockPrices, qty \in RaceQtys :
         LET id == Len(orders) + 1
             o == [ID |-> id, ClientID |-> client, Symbol |-> pc[t].symbol, Side |-> side,
                   Type |-> Limit, Price |-> price, Quantity |-> qty,
                   Remaining |-> qty, Status |-> Open, CreatedAt |-> clock + 1]
         IN /\ orders' = Append(orders, o)
            /\ trades' = Append(trades, <<>>)
            /\ orderbook' = sortBook(appendToBook(getOrCreateOrderbook(orderbook, o.Symbol), o),
                                     o.Symbol)
            /\ clock' = clock + 1
            /\ pc' = [pc EXCEPT ![t] = [at |-> "match", op |-> "SubmitOrder",
                                        symbol |-> o.Symbol, id |-> id]]
    /\ UNCHANGED <<last, mu, apiVars, snapVars, storeVars, repoVars, txVars, otherVars>>

\* The rest of SubmitOrder: the matching loop over e.orders, e.trades[o.ID],
\* and repo.SaveOrder(o), which stores the pointer o.
SubmitMatch(t) ==
    /\ pc[t] # Idle /\ pc[t].at = "match"
    /\ \E iter \in Perms(OrderIDs) :
         LET id == pc[t].id
             st == MatchLoop([orders |-> orders, trades |-> trades,
                              executed |-> <<>>, stop |-> FALSE], id, iter, 1)
         IN /\ orders' = st.orders
            /\ trades' = [st.trades EXCEPT ![id] = @ \o st.executed]
            /\ last' = [op |-> "SubmitOrder", id |-> id]
            /\ store' = Append(store, SharedRow)
    /\ pc' = [pc EXCEPT ![t] = [at |-> "Unlock", op |-> "SubmitOrder",
                                symbol |-> pc[t].symbol]]
    /\ UNCHANGED <<orderbook, clock, mu, apiVars, snapVars, storeVars,
                   storeTrades, calls, returned, txVars, otherVars>>

\* A goroutine calls LoadOpenOrdersFromRepo: no e.mu.Lock(); e.repo is not nil.
LoadCall(t) ==
    /\ pc[t] = Idle
    /\ returned.n < MaxLoads
    /\ \E symbols \in {<<s>> : s \in Symbols} :
         pc' = [pc EXCEPT ![t] = [at |-> "load", op |-> "LoadOpenOrdersFromRepo",
                                  symbols |-> symbols, loaded |-> <<>>]]
    /\ returned' = [op |-> "LoadOpenOrdersFromRepo", n |-> returned.n + 1]
    /\ UNCHANGED <<mu, engineVars, apiVars, snapVars, storeVars, store, storeTrades,
                   calls, txVars, otherVars>>

\* `for _, s := range symbols`: repo.LoadOpenOrders(ctx, s) and
\* e.getOrCreateOrderbook(s); after the last symbol, on to the sorting loop.
LoadSymbol(t) ==
    /\ pc[t] # Idle /\ pc[t].at = "load"
    /\ IF pc[t].symbols = <<>>
       THEN /\ pc' = [pc EXCEPT ![t].at = "sort"]
            /\ UNCHANGED orderbook
       ELSE \E iter \in Perms(1..Len(store)) :
              /\ pc' = [pc EXCEPT ![t].at = "append",
                                  ![t].loaded = MemLoadOpenOrders(Head(pc[t].symbols), iter)]
              /\ orderbook' = getOrCreateOrderbook(orderbook, Head(pc[t].symbols))
    /\ UNCHANGED <<orders, trades, clock, last, mu, apiVars, snapVars, storeVars,
                   repoVars, txVars, otherVars>>

\* `for _, o := range orders`: e.orders[o.ID] = o and the append of *o to the
\* book; after the last order, on to the next symbol.
LoadAppend(t) ==
    /\ pc[t] # Idle /\ pc[t].at = "append"
    /\ IF pc[t].loaded = <<>>
       THEN /\ pc' = [pc EXCEPT ![t].at = "load", ![t].symbols = Tail(@)]
            /\ UNCHANGED <<orders, orderbook, store>>
       ELSE LET o == Head(pc[t].loaded)
            IN /\ orders' = [orders EXCEPT ![o.ID] = o]
               /\ store' = [store EXCEPT ![o.ID] =
                               IF @.shared THEN [shared |-> FALSE, o |-> orders[o.ID]] ELSE @]
               /\ orderbook' = appendToBook(orderbook, o)
               /\ pc' = [pc EXCEPT ![t].loaded = Tail(@)]
    /\ UNCHANGED <<trades, clock, last, mu, apiVars, snapVars, storeVars,
                   storeTrades, calls, returned, txVars, otherVars>>

\* `for _, ob := range e.orderbook { sortOrders(ob) }` and `return nil`.
LoadSort(t) ==
    /\ pc[t] # Idle /\ pc[t].at = "sort"
    /\ orderbook' = [s \in DOMAIN orderbook |-> sortOrders(orderbook[s])]
    /\ last' = [op |-> "LoadOpenOrdersFromRepo", id |-> 0]
    /\ pc' = [pc EXCEPT ![t] = Idle]
    /\ UNCHANGED <<orders, trades, clock, mu, apiVars, snapVars, storeVars, repoVars, txVars, otherVars>>

\* Engine.GetOrderbook with a nil cache, under e.mu: the pointer
\* e.orderbook[symbol] itself, or "symbol not found".
GetOrderbookBody(t) ==
    /\ pc[t] # Idle /\ pc[t].at = "body" /\ pc[t].op = "getOrderbook"
    /\ pc' = [pc EXCEPT ![t] = [at |-> "return", op |-> "getOrderbook",
                                symbol |-> pc[t].symbol,
                                err |-> GetOrderbookErr(pc[t].symbol)]]
    /\ UNCHANGED <<mu, engineVars, apiVars, snapVars, storeVars, repoVars, txVars, otherVars>>

\* The deferred e.mu.Unlock() of GetOrderbook and its return to the handler,
\* which answers 404 on an error and goes on to ob.DeepCopy() otherwise.
GetOrderbookReturn(t) ==
    /\ pc[t] # Idle /\ pc[t].at = "return"
    /\ mu' = Unlocked
    /\ IF pc[t].err # ErrNone
       THEN /\ response' = [status |-> StatusNotFound, error |-> pc[t].err]
            /\ pc' = [pc EXCEPT ![t] = Idle]
       ELSE /\ pc' = [pc EXCEPT ![t] = [at |-> "DeepCopy", op |-> "getOrderbook",
                                        symbol |-> pc[t].symbol]]
            /\ UNCHANGED response
    /\ UNCHANGED <<engineVars, submittedID, firstResponse, snapVars, storeVars,
                   repoVars, txVars, otherVars>>

\* OrderbookSnapshot.DeepCopy, first half: copy(copyBids, o.Bids) on the
\* engine's own book.
DeepCopyBids(t) ==
    /\ pc[t] # Idle /\ pc[t].at = "DeepCopy"
    /\ pc' = [pc EXCEPT ![t] = [at |-> "copyAsks", op |-> "getOrderbook",
                                symbol |-> pc[t].symbol,
                                copyBids |-> orderbook[pc[t].symbol].Bids]]
    /\ UNCHANGED <<mu, engineVars, apiVars, snapVars, storeVars, repoVars, txVars, otherVars>>

\* Second half: copy(copyAsks, o.Asks), and the handler's 200 response.
DeepCopyAsks(t) ==
    /\ pc[t] # Idle /\ pc[t].at = "copyAsks"
    /\ response' = [status |-> StatusOK, Bids |-> pc[t].copyBids,
                    Asks |-> orderbook[pc[t].symbol].Asks]
    /\ pc' = [pc EXCEPT ![t] = Idle]
    /\ UNCHANGED <<mu, engineVars, submittedID, firstResponse, snapVars, storeVars,
                   repoVars, txVars, otherVars>>

\* The goroutine's next statement uses the map e.orders or e.orderbook.
UsesMaps(t) == pc[t] # Idle /\ pc[t].at \in {"body", "match", "load", "append", "sort"}

\* The goroutine's next statement writes one of the two maps.
WritesMaps(t) ==
    /\ pc[t] # Idle
    /\ \/ pc[t].at = "body" /\ pc[t].op = "SubmitOrder"
       \/ pc[t].at = "load" /\ pc[t].symbols # <<>>
       \/ pc[t].at = "append" /\ pc[t].loaded # <<>>

\* The Go runtime detects a map written by one goroutine while another uses
\* it, and ends the process ("fatal error: concurrent map writes").
Fatal ==
    /\ \E t, u \in Threads : t # u /\ WritesMaps(t) /\ UsesMaps(u)
    /\ pc' = [t \in Threads |-> [at |-> "fatal"]]
    /\ UNCHANGED <<mu, engineVars, apiVars, snapVars, storeVars, repoVars, txVars, otherVars>>

NextRace ==
    \/ \E t \in Threads :
          \/ RaceCall(t) \/ Lock(t) \/ SubmitInsert(t) \/ SubmitMatch(t) \/ Unlock(t)
          \/ LoadCall(t) \/ LoadSymbol(t) \/ LoadAppend(t) \/ LoadSort(t)
          \/ GetOrderbookBody(t) \/ GetOrderbookReturn(t) \/ DeepCopyBids(t) \/ DeepCopyAsks(t)
    \/ Fatal

SpecRace == Init /\ [][NextRace]_vars

\* The goroutine's next statement reads or writes e.orders or a book.
Accesses(t) ==
    pc[t] # Idle /\ pc[t].at \in {"body", "match", "load", "append", "sort", "DeepCopy", "copyAsks"}

\* The goroutine's next statement writes e.orders or a book.
Mutates(t) ==
    /\ pc[t] # Idle
    /\ \/ pc[t].at \in {"body", "match"} /\ pc[t].op = "SubmitOrder"
       \/ pc[t].at \in {"load", "append"}
       \/ pc[t].at = "sort"

\* C32: the book and the order table are used only under the engine's lock.
\* No goroutine is at a statement that reads or writes e.orders or a symbol's
\* Bids/Asks while another goroutine is at a statement that mutates them; this
\* covers LoadOpenOrdersFromRepo next to SubmitOrder and the handler's
\* DeepCopy of the book next to SubmitOrder.
C32_AccessOnlyUnderLock ==
    \A t, u \in Threads : (t # u /\ Accesses(t)) => ~Mutates(u)

\* The stored orders of a symbol and side that recovery has to bring back.
Recoverable(symbol, side) ==
    {RepoOrders[i] : i \in {j \in OrderIDs :
        /\ RepoOrders[j].Symbol = symbol /\ RepoOrders[j].Side = side
        /\ RepoOrders[j].Remaining > 0
        /\ RepoOrders[j].Status \in {Open, PartiallyFilled}}}

NewQtys == (0 - 1)..MaxQty

ModifyAnyQty ==
    \E orderID \in 1..MaxStoreOrders, clientID \in Clients, newPrice \in Prices :
        \E newQty \in NewQtys :
            /\ ModifyOrder(orderID, clientID, newPrice, newQty)
            /\ UNCHANGED <<apiVars, snapVars, storeVars, restVars>>

NextQty == StoreSubmit \/ ModifyAnyQty \/ Cancel

SpecQty == Init /\ [][NextQty]_vars

\* C34: Remaining stays within bounds. After any sequence of SubmitOrder,
\* ModifyOrder (with any newQty, zero and negative included) and CancelOrder
\* calls every order has 0 <= Remaining <= Quantity, and every OPEN order has
\* Quantity > 0.
C34_RemainingWithinBounds ==
    \A id \in OrderIDs :
        /\ 0 <= orders[id].Remaining
        /\ orders[id].Remaining <= orders[id].Quantity
        /\ orders[id].Status = Open => orders[id].Quantity > 0

\* ------------------------------------------------------- core.OrderBook
\* SpecBook: one core.OrderBook and the orders handed to AddOrder. Buy and
\* Sell hold pointers to orders nobody else changes, so an entry is the order
\* itself. clock is time.Now() in microseconds, the resolution of
\* generateTradeID.
MaxBookOrders == 3

\* The trade ID of generateTradeID at the clock reading t, and the n-th ID
\* drawn from uuid.NewString().
TimeID(t) == [kind |-> "time", n |-> t]
UUID(n) == [kind |-> "uuid", n |-> n]

\* The comparison of sortBuy: price descending, then CreatedAt.
lessBuy(a, b) ==
    IF a.Price = b.Price THEN a.CreatedAt < b.CreatedAt ELSE a.Price > b.Price

\* The comparison of sortSell: price ascending, then CreatedAt.
lessSell(a, b) ==
    IF a.Price = b.Price THEN a.CreatedAt < b.CreatedAt ELSE a.Price < b.Price

\* sort.Slice is not stable: any arrangement of s in which no element is
\* less than one before it, by the comparison of its side.
SortSlice(s, side) ==
    {[i \in 1..Len(s) |-> s[p[i]]] :
        p \in {q \in Perms(1..Len(s)) :
                 \A i, j \in 1..Len(s) :
                     i < j => ~(IF side = Buy THEN lessBuy(s[q[j]], s[q[i]])
                                ELSE lessSell(s[q[j]], s[q[i]]))}}

sortBuy(s) == SortSlice(s, Buy)
sortSell(s) == SortSlice(s, Sell)

\* s without its i-th element: append(s[:i], s[i+1:]...).
RemoveAt(s, i) == SubSeq(s, 1, i - 1) \o SubSeq(s, i + 1, Len(s))

\* A buy that stops in front of a sell at its own price.
BuyTakesBelowOnly(o, match) == match.Price < o.Price

\* The price conditions of the loops of executeBuy and executeSell.
BuyTakes(o, match) == match.Price <= o.Price
SellTakes(o, match) == match.Price >= o.Price

\* chooseOrderID(o1, o2, side)
chooseOrderID(o1, o2, side) == IF o1.Side = side THEN o1.ID ELSE o2.ID

\* The loop of executeBuy. st = [o, rest, trades, t]: the incoming order, the
\* Sell slice, the trades made and the last clock reading; i is the index
\* (from 1), and ticks[k] is by how much the clock has advanced when the k-th
\* trade of the call is made.
RECURSIVE executeBuy(_, _, _)
executeBuy(st, i, ticks) ==
    IF ~(i <= Len(st.rest) /\ st.o.Remaining > 0 /\ BuyTakes(st.o, st.rest[i])) THEN st
    ELSE LET match == st.rest[i]
             qty == min(st.o.Remaining, match.Remaining)
             now == st.t + ticks[Len(st.trades) + 1]
             tr == [ID |-> TimeID(now), BuyOrder |-> st.o.ID, SellOrder |-> match.ID,
                    Price |-> match.Price, Quantity |-> qty, Timestamp |-> now]
             next == [o |-> [st.o EXCEPT !.Remaining = @ - qty],
                      rest |-> IF match.Remaining - qty = 0 THEN RemoveAt(st.rest, i)
                               ELSE [st.rest EXCEPT ![i].Remaining = @ - qty],
                      trades |-> Append(st.trades, tr),
                      t |-> now]
         IN executeBuy(next, IF match.Remaining - qty = 0 THEN i ELSE i + 1, ticks)

\* The loop of executeSell, over the Buy slice.
RECURSIVE executeSell(_, _, _)
executeSell(st, i, ticks) ==
    IF ~(i <= Len(st.rest) /\ st.o.Remaining > 0 /\ SellTakes(st.o, st.rest[i])) THEN st
    ELSE LET match == st.rest[i]
             qty == min(st.o.Remaining, match.Remaining)
             now == st.t + ticks[Len(st.trades) + 1]
             tr == [ID |-> TimeID(now), BuyOrder |-> match.ID, SellOrder |-> st.o.ID,
                    Price |-> match.Price, Quantity |-> qty, Timestamp |-> now]
             next == [o |-> [st.o EXCEPT !.Remaining = @ - qty],
                      rest |-> IF match.Remaining - qty = 0 THEN RemoveAt(st.rest, i)
                               ELSE [st.rest EXCEPT ![i].Remaining = @ - qty],
                      trades |-> Append(st.trades, tr),
                      t |-> now]
         IN executeSell(next, IF match.Remaining - qty = 0 THEN i ELSE i + 1, ticks)

\* The loop of matchMarketOrder over the opposite side of the book; drawn is
\* the number of UUIDs drawn before the call.
RECURSIVE matchMarketOrder(_, _, _)
matchMarketOrder(st, drawn, ticks) ==
    IF ~(Len(st.rest) > 0 /\ st.o.Remaining > 0) THEN st
    ELSE LET best == st.rest[1]
             tradeQty == min(st.o.Remaining, best.Remaining)
             now == st.t + ticks[Len(st.trades) + 1]
             tr == [ID |-> UUID(drawn + Len(st.trades) + 1),
                    BuyOrder |-> chooseOrderID(st.o, best, Buy),
                    SellOrder |-> chooseOrderID(st.o, best, Sell),
                    Price |-> best.Price, Quantity |-> tradeQty, Timestamp |-> now]
             next == [o |-> [st.o EXCEPT !.Remaining = @ - tradeQty],
                      rest |-> IF best.Remaining - tradeQty = 0 THEN Tail(st.rest)
                               ELSE [st.rest EXCEPT ![1].Remaining = @ - tradeQty],
                      trades |-> Append(st.trades, tr),
                      t |-> now]
         IN matchMarketOrder(next, drawn, ticks)

\* matchLimitOrder: the books it can end with (the sort is not stable), each
\* with the trades made and the last clock reading.
matchLimitOrder(o, ticks) ==
    IF o.Side = Buy
    THEN LET st == executeBuy([o |-> o, rest |-> book.Sell, trades |-> <<>>, t |-> o.CreatedAt],
                              1, ticks)
         IN IF st.o.Remaining > 0
            THEN {[Buy |-> s, Sell |-> st.rest, trades |-> st.trades, t |-> st.t] :
                     s \in sortBuy(Append(book.Buy, st.o))}
            ELSE {[Buy |-> book.Buy, Sell |-> st.rest, trades |-> st.trades, t |-> st.t]}
    ELSE LET st == executeSell([o |-> o, rest |-> book.Buy, trades |-> <<>>, t |-> o.CreatedAt],
                               1, ticks)
         IN IF st.o.Remaining > 0
            THEN {[Buy |-> st.rest, Sell |-> s, trades |-> st.trades, t |-> st.t] :
                     s \in sortSell(Append(book.Sell, st.o))}
            ELSE {[Buy |-> st.rest, Sell |-> book.Sell, trades |-> st.trades, t |-> st.t]}

\* The UUIDs drawn so far.
Drawn == Cardinality({k \in 1..Len(produced) : produced[k].ID.kind = "uuid"})

\* AddOrder for a MARKET order: the order never rests.
addMarketOrder(o, ticks) ==
    LET st == matchMarketOrder([o |-> o, rest |-> IF o.Side = Buy THEN book.Sell ELSE book.Buy,
                                trades |-> <<>>, t |-> o.CreatedAt], Drawn, ticks)
    IN {[Buy |-> IF o.Side = Buy THEN book.Buy ELSE st.rest,
         Sell |-> IF o.Side = Buy THEN st.rest ELSE book.Sell,
         trades |-> st.trades, t |-> st.t]}

\* OrderBook.AddOrder(o), o stamped by its caller with Remaining = Quantity
\* and CreatedAt = time.Now().
AddOrder ==
    /\ added < MaxBookOrders
    /\ \E side \in Sides, type \in Types, qty \in Qtys, tick \in 0..1 :
         \E price \in PricesOf(type), ticks \in [1..MaxBookOrders -> 0..1] :
           LET o == [ID |-> added + 1, Symbol |-> "X", Side |-> side, Type |-> type,
                     Price |-> price, Quantity |-> qty, Remaining |-> qty,
                     CreatedAt |-> clock + tick]
           IN \E res \in (IF o.Type = Market THEN addMarketOrder(o, ticks)
                          ELSE matchLimitOrder(o, ticks)) :
                 /\ book' = [Buy |-> res.Buy, Sell |-> res.Sell]
                 /\ produced' = produced \o res.trades
                 /\ clock' = res.t
    /\ added' = added + 1
    /\ UNCHANGED <<orders, trades, orderbook, last, apiVars, snapVars, storeVars,
                   repoVars, concVars, txVars, memVars, sliceVars, chanVars>>

NextBook == AddOrder

SpecBook == Init /\ [][NextBook]_vars

\* C35: core.OrderBook runs matching to a fixed point. After any sequence of
\* AddOrder calls with LIMIT and MARKET orders the book is never crossed: when
\* Buy and Sell are both non-empty the best bid is below the best ask.
C35_OrderBookNeverCrossed ==
    (book.Buy # <<>> /\ book.Sell # <<>>) => book.Buy[1].Price < book.Sell[1].Price

\* Both sides of the OrderBook hold orders after a trade has been made, one of
\* them partly filled.
C35_Witness ==
    /\ book.Buy # <<>> /\ book.Sell # <<>>
    /\ produced # <<>>
    /\ \E e \in Range(book.Buy) \cup Range(book.Sell) : e.Remaining < e.Quantity

\* C38: trade identifiers are unique. All trades AddOrder has produced, within
\* one call and across calls, have pairwise distinct IDs.
C38_TradeIDsUnique ==
    \A i, j \in 1..Len(produced) : i # j => produced[i].ID # produced[j].ID

\* ------------------------------------------- MemoryRepo and its port.Tx
\* SpecMem: a MemoryRepo used through the Tx that BeginTx returns. store is
\* r.orders and storeTrades is r.trades (order ID -> trades). memTx.orders
\* and memTx.trades keep what the repository held when the Tx was obtained.
MaxMemTx == 2
MaxMemWrites == 2
MemOrderIDs == 1..2

\* The orders and trades a caller saves.
MemOrders ==
    {[ID |-> id, ClientID |-> "c1", Symbol |-> "X", Side |-> side, Type |-> Limit,
      Price |-> 1, Quantity |-> qty, Remaining |-> qty, Status |-> Open, CreatedAt |-> id] :
        id \in MemOrderIDs, side \in Sides, qty \in Qtys}
MemTrades ==
    {t \in [ID : 1..MaxMemWrites, BuyOrder : MemOrderIDs, SellOrder : MemOrderIDs,
            Price : {1}, Quantity : {1}] : t.BuyOrder # t.SellOrder}

\* MemoryRepo.SaveOrder: r.orders[o.ID] = o.
MemSaveOrder(rows, o) == [i \in DOMAIN rows \cup {o.ID} |-> IF i = o.ID THEN o ELSE rows[i]]

\* MemoryRepo.SaveTrade: the trade is appended under both of its orders.
MemAppendTrade(ts, id, t) ==
    [i \in DOMAIN ts \cup {id} |-> IF i = id
                                   THEN (IF id \in DOMAIN ts THEN Append(ts[id], t) ELSE <<t>>)
                                   ELSE ts[i]]
MemSaveTrade(ts, t) == MemAppendTrade(MemAppendTrade(ts, t.BuyOrder, t), t.SellOrder, t)

\* The error MemoryRepo.CancelOrder and MemoryRepo.ModifyOrder return.
MemOrderErr(rows, orderID, clientID) ==
    IF orderID \notin DOMAIN rows \/ rows[orderID].ClientID # clientID
    THEN ErrNotFound ELSE ErrNone

MemCancelOrder(rows, orderID, clientID) ==
    IF MemOrderErr(rows, orderID, clientID) # ErrNone THEN rows
    ELSE [rows EXCEPT ![orderID].Status = Cancelled, ![orderID].Remaining = 0]

MemModifyOrder(rows, orderID, clientID, newPrice, newQty) ==
    IF MemOrderErr(rows, orderID, clientID) # ErrNone THEN rows
    ELSE [rows EXCEPT ![orderID].Price = newPrice, ![orderID].Quantity = newQty,
                      ![orderID].Remaining = newQty]

\* MemoryRepo.BeginTx: &noTx{r: r}, nil.
MemBeginTx ==
    /\ ~memTx.open
    /\ memTx.n < MaxMemTx
    /\ memTx' = [open |-> TRUE, n |-> memTx.n + 1, w |-> 0, ended |-> "",
                 orders |-> store, trades |-> storeTrades]
    /\ UNCHANGED <<engineVars, apiVars, snapVars, storeVars, repoVars, concVars, txVars,
                   bookVars, sliceVars, chanVars>>

\* noTx.SaveOrder: t.r.SaveOrder(ctx, o).
noTxSaveOrder(rows, o) == MemSaveOrder(rows, o)

\* The four write methods of noTx, each handing the call to the repository.
MemTxSaveOrder ==
    /\ memTx.open /\ memTx.w < MaxMemWrites
    /\ \E o \in MemOrders : store' = noTxSaveOrder(store, o)
    /\ memTx' = [memTx EXCEPT !.w = @ + 1]
    /\ UNCHANGED <<engineVars, apiVars, snapVars, storeVars, storeTrades, calls, returned,
                   concVars, txVars, bookVars, sliceVars, chanVars>>

MemTxSaveTrade ==
    /\ memTx.open /\ memTx.w < MaxMemWrites
    /\ \E t \in MemTrades : storeTrades' = MemSaveTrade(storeTrades, t)
    /\ memTx' = [memTx EXCEPT !.w = @ + 1]
    /\ UNCHANGED <<engineVars, apiVars, snapVars, storeVars, store, calls, returned,
                   concVars, txVars, bookVars, sliceVars, chanVars>>

MemTxCancelOrder ==
    /\ memTx.open /\ memTx.w < MaxMemWrites
    /\ \E orderID \in MemOrderIDs, clientID \in Clients :
         store' = MemCancelOrder(store, orderID, clientID)
    /\ memTx' = [memTx EXCEPT !.w = @ + 1]
    /\ UNCHANGED <<engineVars, apiVars, snapVars, storeVars, storeTrades, calls, returned,
                   concVars, txVars, bookVars, sliceVars, chanVars>>

MemTxModifyOrder ==
    /\ memTx.open /\ memTx.w < MaxMemWrites
    /\ \E orderID \in MemOrderIDs, clientID \in Clients, newPrice \in Prices, newQty \in Qtys :
         store' = MemModifyOrder(store, orderID, clientID, newPrice, newQty)
    /\ memTx' = [memTx EXCEPT !.w = @ + 1]
    /\ UNCHANGED <<engineVars, apiVars, snapVars, storeVars, storeTrades, calls, returned,
                   concVars, txVars, bookVars, sliceVars, chanVars>>

\* noTx.Commit and noTx.Rollback: `return nil`, nothing else.
MemCommit ==
    /\ memTx.open
    /\ memTx' = [memTx EXCEPT !.open = FALSE, !.ended = "Commit"]
    /\ UNCHANGED <<engineVars, apiVars, snapVars, storeVars, repoVars, concVars, txVars,
                   bookVars, sliceVars, chanVars>>

MemRollback ==
    /\ memTx.open
    /\ memTx' = [memTx EXCEPT !.open = FALSE, !.ended = "Rollback"]
    /\ UNCHANGED <<engineVars, apiVars, snapVars, storeVars, repoVars, concVars, txVars,
                   bookVars, sliceVars, chanVars>>

NextMem ==
    \/ MemBeginTx \/ MemTxSaveOrder \/ MemTxSaveTrade \/ MemTxCancelOrder \/ MemTxModifyOrder
    \/ MemCommit \/ MemRollback

SpecMem == Init /\ [][NextMem]_vars

\* C36: the in-memory repository has the transactional semantics of
\* production. The writes made through a Tx obtained from BeginTx (SaveOrder,
\* SaveTrade, CancelOrder, ModifyOrder) are not in the repository after
\* Rollback: it then holds the orders and trades it held at BeginTx.
C36_MemoryTxRollback ==
    [][MemRollback => (store' = memTx.orders /\ storeTrades' = memTx.trades)]_vars

\* ----------------------------------- the slices of a book and its snapshots
\* SpecAlias: the engine of Spec on one symbol, with ob.Bids and ob.Asks as Go
\* slices: a header (array, len) over a backing array that other headers may
\* share. orderbook keeps the contents of the live book; arrays and slices
\* say where they are in memory. `copy := *ob` in SnapshotOrderbook copies the
\* two headers, not the arrays.
MaxAliasOrders == 2

\* The zero value of domain.Order, in the cells beyond a slice's length.
ZeroOrder ==
    [ID |-> 0, ClientID |-> "", Symbol |-> "", Side |-> "", Type |-> "", Price |-> 0,
     Quantity |-> 0, Remaining |-> 0, Status |-> "", CreatedAt |-> 0]

\* cap(s) and the elements of s.
Cap(arrs, hdr) == IF hdr.arr = 0 THEN 0 ELSE Len(arrs[hdr.arr])
View(arrs, hdr) == [i \in 1..hdr.len |-> arrs[hdr.arr][i]]

\* The capacity append may give the new array when s is full: room for the
\* element, or twice the old capacity.
NewCaps(hdr) == {c \in {hdr.len + 1, 2 * hdr.len} : c > hdr.len}

\* append(s, x): in place when cap(s) > len(s), else into a new array of
\* capacity newCap that starts with a copy of s.
goAppend(arrs, hdr, x, newCap) ==
    IF hdr.len < Cap(arrs, hdr)
    THEN [arrays |-> [arrs EXCEPT ![hdr.arr][hdr.len + 1] = x],
          hdr |-> [arr |-> hdr.arr, len |-> hdr.len + 1]]
    ELSE [arrays |-> Append(arrs, [i \in 1..newCap |->
                                      IF i <= hdr.len THEN arrs[hdr.arr][i]
                                      ELSE IF i = hdr.len + 1 THEN x ELSE ZeroOrder]),
          hdr |-> [arr |-> Len(arrs) + 1, len |-> hdr.len + 1]]

\* removeOrder on a slice: append(orders[:i], orders[i+1:]...) moves the
\* elements after i one cell down in the same array; the last cell keeps
\* what it held.
goRemoveOrder(arrs, hdr, orderID) ==
    LET hits == {i \in 1..hdr.len : arrs[hdr.arr][i].ID = orderID}
    IN IF hits = {} THEN [arrays |-> arrs, hdr |-> hdr]
       ELSE LET i == CHOOSE h \in hits : \A j \in hits : h <= j
            IN [arrays |-> [arrs EXCEPT ![hdr.arr] =
                               [k \in 1..Len(@) |-> IF i <= k /\ k < hdr.len THEN @[k + 1]
                                                    ELSE @[k]]],
                hdr |-> [arr |-> hdr.arr, len |-> hdr.len - 1]]

\* sort.SliceStable on a slice: its elements are rearranged inside its array;
\* sorted is the arrangement sortOrders ends with.
goSort(arrs, hdr, sorted) ==
    IF hdr.arr = 0 THEN arrs
    ELSE [arrs EXCEPT ![hdr.arr] =
             [k \in 1..Len(@) |-> IF k <= hdr.len THEN sorted[k] ELSE @[k]]]

\* The field of the book an order of this side goes to.
SideField(side) == IF side = Buy THEN "Bids" ELSE "Asks"

\* sortOrders(ob) on the live book, whose contents become those of `sorted`.
goSortBook(arrs, live, sorted) ==
    goSort(goSort(arrs, live.Bids, sorted.Bids), live.Asks, sorted.Asks)

\* SubmitOrder: append(ob.Bids, *o) or append(ob.Asks, *o), then sortOrders.
AliasSubmit ==
    /\ Len(orders) < MaxAliasOrders
    /\ \E client \in Owners, side \in Sides, price \in Prices, qty \in LockQtys :
         \E iter \in Perms(1..(Len(orders) + 1)) :
           /\ SubmitOrder(client, "X", side, Limit, price, qty, iter)
           /\ LET f == SideField(side)
                  saved == orders'[Len(orders')]
                  o == [saved EXCEPT !.Remaining = saved.Quantity, !.Status = Open]
              IN \E newCap \in NewCaps(slices.live[f]) :
                   LET a == goAppend(arrays, slices.live[f], o, newCap)
                       live == [slices.live EXCEPT ![f] = a.hdr]
                   IN /\ slices' = [slices EXCEPT !.live = live]
                      /\ arrays' = goSortBook(a.arrays, live, orderbook'["X"])
    /\ UNCHANGED <<apiVars, snapVars, storeVars, repoVars, concVars, txVars, bookVars, memVars, chanVars>>

\* ModifyOrder: removeOrder, the append of the changed order, sortOrders.
AliasModify ==
    /\ \E orderID \in 1..MaxAliasOrders, clientID \in Clients, newPrice \in Prices :
         \E newQty \in LockQtys :
           /\ ModifyOrder(orderID, clientID, newPrice, newQty)
           /\ IF ModifyOrderErr(orderID, clientID) # ErrNone THEN UNCHANGED sliceVars
              ELSE LET f == SideField(orders[orderID].Side)
                       r == goRemoveOrder(arrays, slices.live[f], orderID)
                   IN \E newCap \in NewCaps(r.hdr) :
                        LET a == goAppend(r.arrays, r.hdr, orders'[orderID], newCap)
                            live == [slices.live EXCEPT ![f] = a.hdr]
                        IN /\ slices' = [slices EXCEPT !.live = live]
                           /\ arrays' = goSortBook(a.arrays, live, orderbook'["X"])
    /\ UNCHANGED <<apiVars, snapVars, storeVars, repoVars, concVars, txVars, bookVars, memVars, chanVars>>

\* CancelOrder: removeOrder on the order's side.
AliasCancel ==
    /\ \E orderID \in 1..MaxAliasOrders, clientID \in Clients :
         /\ CancelOrder(orderID, clientID)
         /\ IF CancelOrderErr(orderID, clientID) # ErrNone THEN UNCHANGED sliceVars
            ELSE LET f == SideField(orders[orderID].Side)
                     r == goRemoveOrder(arrays, slices.live[f], orderID)
                 IN /\ slices' = [slices EXCEPT !.live[f] = r.hdr]
                    /\ arrays' = r.arrays
    /\ UNCHANGED <<apiVars, snapVars, storeVars, repoVars, concVars, txVars, bookVars, memVars, chanVars>>

\* SnapshotOrderbook: copy := *ob; e.snapshots[id] = &copy, and
\* repo.SaveSnapshot, which copies the struct once more (copySnap := *ob).
\* Every copy has the headers of the live book. captured keeps the contents
\* the snapshot has when it is taken.
AliasSnapshot ==
    /\ Len(slices.snap) < MaxSnapshots
    /\ SnapshotOrderbookErr("X") = ErrNone
    /\ slices' = [slices EXCEPT !.snap = Append(@, slices.live)]
    /\ captured' = Append(captured, [symbol |-> "X",
                                     Bids |-> View(arrays, slices.live.Bids),
                                     Asks |-> View(arrays, slices.live.Asks)])
    /\ last' = [op |-> "SnapshotOrderbook", id |-> Len(slices.snap) + 1]
    /\ UNCHANGED <<orders, trades, orderbook, clock, arrays, snapshots, apiVars, storeVars,
                   repoVars, concVars, txVars, bookVars, memVars, chanVars>>

NextAlias == AliasSubmit \/ AliasModify \/ AliasCancel \/ AliasSnapshot

SpecAlias == Init /\ [][NextAlias]_vars

\* The live slices hold what the book holds.
LiveIsBook ==
    "X" \in DOMAIN orderbook =>
        /\ View(arrays, slices.live.Bids) = orderbook["X"].Bids
        /\ View(arrays, slices.live.Asks) = orderbook["X"].Asks

\* C37: a captured snapshot is immutable. Once SnapshotOrderbook has returned
\* id, the Bids and Asks of the snapshot stored under id are what they were
\* when it was taken, whatever SubmitOrder, ModifyOrder and CancelOrder calls
\* follow on the symbol.
C37_SnapshotImmutable ==
    \A id \in 1..Len(slices.snap) :
        /\ View(arrays, slices.snap[id].Bids) = captured[id].Bids
        /\ View(arrays, slices.snap[id].Asks) = captured[id].Asks

\* ------------------------------------ the streaming pub/sub of api.Server
\* SpecPubSub: OrderbookPubSub and TradePubSub with the goroutines that use
\* them: the handlers StreamOrderbook and StreamTrades (Subscribe, receive,
\* deferred Unsubscribe) and the goroutines SubmitOrder starts with
\* `go ...PublishSnapshot(...)` and `go ...PublishTrade(...)`. Neither pub/sub
\* has a lock, so the statements of the goroutines interleave.
MaxChans == 2
MaxPublishes == 2

\* make(chan struct{}, 1) and make(chan *engine.Trade, 10)
ChanCap(p) == IF p = "orderbook" THEN 1 ELSE 10

\* Every goroutine is gone: a panic in one goroutine ends the process.
Panicked == [t \in Threads |-> [at |-> "panic"]]

\* Subscribe, up to the test of p.subs[symbol]: the channel is made and ok
\* is read.
SubscribeMake(t) ==
    /\ pc[t] = Idle
    /\ Len(chans) < MaxChans
    /\ \E p \in PubSubs, symbol \in Symbols :
         /\ chans' = Append(chans, [cap |-> ChanCap(p), len |-> 0, closed |-> FALSE])
         /\ pc' = [pc EXCEPT ![t] = [at |-> "insert", op |-> "Stream", pubsub |-> p,
                                     symbol |-> symbol, ch |-> Len(chans) + 1,
                                     ok |-> symbol \in DOMAIN subs[p]]]
    /\ UNCHANGED <<subs, published, mu, engineVars, apiVars, snapVars, storeVars, repoVars,
                   txVars, bookVars, memVars, sliceVars>>

\* The rest of Subscribe: a new inner map if there was none, and the channel
\* put into p.subs[symbol]. The handler then waits in its select.
SubscribeInsert(t) ==
    /\ pc[t] # Idle /\ pc[t].at = "insert"
    /\ LET p == pc[t].pubsub
           symbol == pc[t].symbol
           m == IF pc[t].ok THEN subs[p][symbol] ELSE {}
       IN subs' = [subs EXCEPT ![p] =
                      [s \in DOMAIN @ \cup {symbol} |->
                          IF s = symbol THEN m \cup {pc[t].ch} ELSE @[s]]]
    /\ pc' = [pc EXCEPT ![t].at = "select"]
    /\ UNCHANGED <<chans, published, mu, engineVars, apiVars, snapVars, storeVars, repoVars,
                   txVars, bookVars, memVars, sliceVars>>

\* `case tr := <-ch` (or `case <-ch`) and stream.Send: the handler goes back
\* to the select, or returns the error of Send.
StreamReceive(t) ==
    /\ pc[t] # Idle /\ pc[t].at = "select"
    /\ chans[pc[t].ch].len > 0
    /\ chans' = [chans EXCEPT ![pc[t].ch].len = @ - 1]
    /\ \E sent \in BOOLEAN : pc' = [pc EXCEPT ![t].at = IF sent THEN "select" ELSE "defer"]
    /\ UNCHANGED <<subs, published, mu, engineVars, apiVars, snapVars, storeVars, repoVars,
                   txVars, bookVars, memVars, sliceVars>>

\* `case <-stream.Context().Done(): return nil`
StreamDone(t) ==
    /\ pc[t] # Idle /\ pc[t].at = "select"
    /\ pc' = [pc EXCEPT ![t].at = "defer"]
    /\ UNCHANGED <<chanVars, mu, engineVars, apiVars, snapVars, storeVars, repoVars,
                   txVars, bookVars, memVars, sliceVars>>

\* The deferred Unsubscribe: delete(m, ch); close(ch).
Unsubscribe(t) ==
    /\ pc[t] # Idle /\ pc[t].at = "defer"
    /\ LET p == pc[t].pubsub
           symbol == pc[t].symbol
       IN IF symbol \in DOMAIN subs[p]
          THEN /\ subs' = [subs EXCEPT ![p][symbol] = @ \ {pc[t].ch}]
               /\ chans' = [chans EXCEPT ![pc[t].ch].closed = TRUE]
          ELSE UNCHANGED <<subs, chans>>
    /\ pc' = [pc EXCEPT ![t] = Idle]
    /\ UNCHANGED <<published, mu, engineVars, apiVars, snapVars, storeVars, repoVars,
                   txVars, bookVars, memVars, sliceVars>>

\* SubmitOrder starts a goroutine that runs PublishSnapshot or PublishTrade.
PublishStart(t) ==
    /\ pc[t] = Idle
    /\ published < MaxPublishes
    /\ published' = published + 1
    /\ \E p \in PubSubs, symbol \in Symbols :
         pc' = [pc EXCEPT ![t] = [at |-> "range", op |-> "Publish", pubsub |-> p,
                                  symbol |-> symbol, visited |-> {}]]
    /\ UNCHANGED <<subs, chans, mu, engineVars, apiVars, snapVars, storeVars, repoVars,
                   txVars, bookVars, memVars, sliceVars>>

\* `if m, ok := p.subs[symbol]; ok { for ch := range m {`: the next channel
\* of the map that the loop has not visited, or the end of the loop.
PublishRange(t) ==
    /\ pc[t] # Idle /\ pc[t].at = "range"
    /\ LET p == pc[t].pubsub
           m == IF pc[t].symbol \in DOMAIN subs[p] THEN subs[p][pc[t].symbol] ELSE {}
       IN IF m \ pc[t].visited = {}
          THEN pc' = [pc EXCEPT ![t] = Idle]
          ELSE \E ch \in m \ pc[t].visited :
                 pc' = [pc EXCEPT ![t] = [at |-> "send", op |-> "Publish", pubsub |-> p,
                                          symbol |-> pc[t].symbol,
                                          visited |-> pc[t].visited \cup {ch}, ch |-> ch]]
    /\ UNCHANGED <<chanVars, mu, engineVars, apiVars, snapVars, storeVars, repoVars,
                   txVars, bookVars, memVars, sliceVars>>

\* `select { case ch <- t: default: }`: a send on a closed channel panics;
\* a full buffer takes the default branch.
PublishSend(t) ==
    /\ pc[t] # Idle /\ pc[t].at = "send"
    /\ LET c == chans[pc[t].ch]
       IN IF c.closed
          THEN pc' = Panicked /\ UNCHANGED chans
          ELSE /\ chans' = [chans EXCEPT ![pc[t].ch].len = IF c.len < c.cap THEN @ + 1 ELSE @]
               /\ pc' = [pc EXCEPT ![t] = [at |-> "range", op |-> "Publish",
                                           pubsub |-> pc[t].pubsub, symbol |-> pc[t].symbol,
                                           visited |-> pc[t].visited]]
    /\ UNCHANGED <<subs, published, mu, engineVars, apiVars, snapVars, storeVars, repoVars,
                   txVars, bookVars, memVars, sliceVars>>

NextPubSub ==
    \E t \in Threads :
        \/ SubscribeMake(t) \/ SubscribeInsert(t) \/ StreamReceive(t) \/ StreamDone(t)
        \/ Unsubscribe(t) \/ PublishStart(t) \/ PublishRange(t) \/ PublishSend(t)

SpecPubSub == Init /\ [][NextPubSub]_vars

\* The goroutine's next statement reads the subs map of pub/sub p, and the
\* goroutine's next statement writes it.
ReadsSubs(t, p) ==
    pc[t] # Idle /\ pc[t].at \in {"range", "insert", "defer"} /\ pc[t].pubsub = p
WritesSubs(t, p) ==
    pc[t] # Idle /\ pc[t].at \in {"insert", "defer"} /\ pc[t].pubsub = p

\* C39: streaming pub/sub never sends on a closed channel. In every
\* interleaving of Subscribe, Unsubscribe and the publishing goroutines, no
\* publish is about to send to a channel that Unsubscribe has closed, and no
\* goroutine has panicked.
C39_NoSendOnClosedChannel ==
    \A t \in Threads :
        /\ pc[t].at # "panic"
        /\ (pc[t] # Idle /\ pc[t].at = "send") => ~chans[pc[t].ch].closed

\* The second part of the claim: no goroutine is about to read a subscriber
\* map that another goroutine is about to write.
SubsNeverRaced ==
    \A t, u \in Threads, p \in PubSubs : (t # u /\ ReadsSubs(t, p)) => ~WritesSubs(u, p)

\* ----------------------------------- SubmitOrder with an ID from the caller
\* SpecID: the engine of Spec where SubmitOrder is also called with o.ID set
\* by the caller (the HTTP handler passes req.OrderID on) to the ID of an order
\* the engine already holds. An ID the engine does not hold yet behaves as a
\* drawn one.
SubmitOrderWithID(id, client, symbol, side, type, price, qty, iter) ==
    LET now == clock + 1
        o == [ID |-> id, ClientID |-> client, Symbol |-> symbol, Side |-> side,
              Type |-> type, Price |-> price, Quantity |-> qty,
              Remaining |-> qty, Status |-> Open, CreatedAt |-> now]
        ob == sortBook(appendToBook(getOrCreateOrderbook(orderbook, symbol), o), symbol)
        st == MatchLoop([orders |-> [orders EXCEPT ![id] = o], trades |-> trades,
                         executed |-> <<>>, stop |-> FALSE], id, iter, 1)
    IN /\ orders' = st.orders
       /\ trades' = [st.trades EXCEPT ![id] = @ \o st.executed]
       /\ orderbook' = ob
       /\ clock' = now
       /\ last' = [op |-> "SubmitOrder", id |-> id]

\* The number of SubmitOrder calls a run of SpecID makes.
MaxSubmits == 3

SubmitWithID ==
    /\ clock < MaxSubmits
    /\ \E id \in OrderIDs, client \in Owners, symbol \in Symbols, side \in Sides :
         \E price \in Prices, qty \in Qtys, iter \in Perms(OrderIDs) :
           /\ SubmitOrderWithID(id, client, symbol, side, Limit, price, qty, iter)
           /\ UNCHANGED <<apiVars, snapVars, storeVars, restVars>>

NextID == StoreSubmit \/ SubmitWithID \/ Modify \/ Cancel

SpecID == Init /\ [][NextID]_vars

\* C40: order identity is unique in the book. Each order ID appears at most
\* once across a symbol's Bids and Asks, and the order table holds one record
\* for every SubmitOrder call made (clock counts them): a SubmitOrder with the
\* ID of an existing order does not overwrite that order.
C40_OrderIdentityUnique ==
    /\ \A sym \in DOMAIN orderbook :
          LET all == orderbook[sym].Bids \o orderbook[sym].Asks
          IN \A i, j \in 1..Len(all) : i # j => all[i].ID # all[j].ID
    /\ Len(orders) = clock

====
